---- MODULE Spec2Model ----
(***************************************************************************)
(* A model of the tornado-couchdb client (src/couch/couch.py): the         *)
(* response interpreter (_parse_response), the error classifier            *)
(* (relax_exception and the CouchException classes), the five basic http   *)
(* methods, the operation facade on top of them, close(), and the          *)
(* BlockingCouch wrapper that drives every call on a private IOLoop.       *)
(*                                                                         *)
(* Python values are modelled as tagged records:                           *)
(*   [t |-> "dict", d |-> record]   a dict (the record's fields = its keys)*)
(*   [t |-> "list", items |-> seq]  a list                                 *)
(*   [t |-> "str",  s |-> seq]      a string, as its sequence of fragments *)
(*   [t |-> "null"]                 None                                   *)
(*   [t |-> "bool", b |-> BOOLEAN]  a boolean                              *)
(*   [t |-> "raw",  body |-> body]  the undecoded bytes of a response body *)
(* An exception is a record [cls, message] and, for the HTTPError family,  *)
(* also [code, response]; response is <<>> (None) or <<resp>>.             *)
(***************************************************************************)
EXTENDS Integers, Sequences, FiniteSets, TLC

\* ------------------------------------------------------------------ bounds
\* longest list / longest `rows` in a response body
MaxItems == 2

\* ---------------------------------------------------------- python helpers
\* None, where a message string is expected
NoneMsg == "<None>"

\* Python truthiness of a message: None and '' are falsy
Falsy(m) == m \in {NoneMsg, ""}

\* `w in s` for a str s: substring search.  A string is modelled as the
\* sequence of its fragments, the fragments chosen so that w occurs in the
\* string exactly when it is one of the fragments.
HasSubstring(s, w) == \E i \in 1..Len(s) : s[i] = w

\* `key in x`: "yes", "no", or "TypeError" when x is not a container
Contains(x, key) ==
    CASE x.t = "dict" -> IF key \in DOMAIN x.d THEN "yes" ELSE "no"
      [] x.t = "str"  -> IF HasSubstring(x.s, key) THEN "yes" ELSE "no"
      [] x.t = "list" -> IF \E i \in 1..Len(x.items) :
                                x.items[i] = [t |-> "str", s |-> <<key>>]
                         THEN "yes" ELSE "no"
      [] OTHER        -> "TypeError"

\* `x[key]` for a string key: "ok", "KeyError" or "TypeError"
GetItemStatus(x, key) ==
    CASE x.t = "dict" -> IF key \in DOMAIN x.d THEN "ok" ELSE "KeyError"
      [] OTHER        -> "TypeError"

\* a Python exception that is not an HTTPError
PyError(cls, message) == [cls |-> cls, message |-> message]

Returned(v) == [kind |-> "return", val |-> v]
Raised(e) == [kind |-> "raise", exc |-> e]

\* -------------------------------------------------- tornado.httpclient
\* httplib.responses.get(code, "Unknown")
StdReason(code) ==
    CASE code = 200 -> "OK"
      [] code = 201 -> "Created"
      [] code = 304 -> "Not Modified"
      [] code = 400 -> "Bad Request"
      [] code = 401 -> "Unauthorized"
      [] code = 404 -> "Not Found"
      [] code = 405 -> "Method Not Allowed"
      [] code = 409 -> "Conflict"
      [] code = 412 -> "Precondition Failed"
      [] code = 500 -> "Internal Server Error"
      [] OTHER      -> "Unknown"

\* httpclient.HTTPError.__init__(code, message, response)
HTTPErrorInit(cls, code, message, response) ==
    [cls |-> cls, code |-> code,
     message |-> IF Falsy(message) THEN StdReason(code) ELSE message,
     response |-> response]

HTTPError(code, message, response) ==
    HTTPErrorInit("HTTPError", code, message, response)

\* ----------------------------------------------------- error classifier
CouchClasses == {"CouchException", "NotModified", "BadRequest", "NotFound",
                 "MethodNotAllowed", "Conflict", "PreconditionFailed",
                 "InternalServerError"}

\* isinstance(e, httpclient.HTTPError)
IsHTTPError(e) == e.cls \in CouchClasses \cup {"HTTPError"}

\* CouchException.__init__(self, HTTPError, msg=None), for the class cls:
\* reads HTTPError.code and HTTPError.response of its first argument, which
\* must therefore be an object with these attributes.
CouchExceptionInit(cls, arg, msg) ==
    IF "code" \in DOMAIN arg
    THEN HTTPErrorInit(cls, arg.code, msg, arg.response)
    ELSE PyError("AttributeError", "'str' object has no attribute 'code'")

CouchException(arg) == CouchExceptionInit("CouchException", arg, NoneMsg)

NotModified(e) ==
    CouchExceptionInit("NotModified", e,
        "The document has not been modified since the last update.")

BadRequest(e) ==
    CouchExceptionInit("BadRequest", e,
        "The syntax of the request was invalid or could not be processed.")

NotFound(e) ==
    CouchExceptionInit("NotFound", e, "The requested resource was not found.")

MethodNotAllowed(e) ==
    CouchExceptionInit("MethodNotAllowed", e,
        "The request was made using an incorrect request method; for example, a GET was used where a POST was required.")

Conflict(e) ==
    CouchExceptionInit("Conflict", e,
        "The request failed because of a database conflict.")

PreconditionFailed(e) ==
    CouchExceptionInit("PreconditionFailed", e,
        "Could not create database - a database with that name already exists.")

InternalServerError(e) ==
    CouchExceptionInit("InternalServerError", e,
        "The request was invalid and failed, or an error occurred within the CouchDB server that prevented it from processing the request.")

\* relax_exception without its branch for 405
relax_exception_no405(e) ==
    IF IsHTTPError(e)
    THEN CASE e.code = 304 -> NotModified(e)
           [] e.code = 400 -> BadRequest(e)
           [] e.code = 404 -> NotFound(e)
           [] e.code = 409 -> Conflict(e)
           [] e.code = 412 -> PreconditionFailed(e)
           [] e.code = 500 -> InternalServerError(e)
           [] OTHER        -> CouchException(e)
    ELSE e

\* relax_exception without its branch for 409
relax_exception_no409(e) ==
    IF IsHTTPError(e)
    THEN CASE e.code = 304 -> NotModified(e)
           [] e.code = 400 -> BadRequest(e)
           [] e.code = 404 -> NotFound(e)
           [] e.code = 405 -> MethodNotAllowed(e)
           [] e.code = 412 -> PreconditionFailed(e)
           [] e.code = 500 -> InternalServerError(e)
           [] OTHER        -> CouchException(e)
    ELSE e

relax_exception(e) ==
    IF IsHTTPError(e)
    THEN CASE e.code = 304 -> NotModified(e)
           [] e.code = 400 -> BadRequest(e)
           [] e.code = 404 -> NotFound(e)
           [] e.code = 405 -> MethodNotAllowed(e)
           [] e.code = 409 -> Conflict(e)
           [] e.code = 412 -> PreconditionFailed(e)
           [] e.code = 500 -> InternalServerError(e)
           [] OTHER        -> CouchException(e)
    ELSE e

\* ------------------------------------------------- values and responses
Str(frags) == [t |-> "str", s |-> frags]
Dict(d) == [t |-> "dict", d |-> d]
List(items) == [t |-> "list", items |-> items]
Null == [t |-> "null"]
Bool(b) == [t |-> "bool", b |-> b]
Raw(body) == [t |-> "raw", body |-> body]

SeqsUpTo(S, n) == UNION {[1..k -> S] : k \in 0..n}

\* the `error` strings a server sends
ErrorStrings == {"not_found", "conflict", "forbidden"}

\* database names, as list_dbs receives them: "testdb" and "error_log"
DbNames == {Str(<<"testdb">>), Str(<<"error", "_log">>)}

\* elements of a _bulk_docs answer: a saved document, a failed one with
\* its reason, a failed one without a reason
BulkItems ==
    {Dict([id |-> "a", rev |-> "1-x"])}
    \cup {Dict([id |-> "a", error |-> e, reason |-> "no update"]) :
            e \in ErrorStrings}
    \cup {Dict([id |-> "a", error |-> "conflict"])}

\* documents embedded in a row: a document, or null for a deleted one
RowDocs == {Dict([_id |-> "a", _rev |-> "1-x", msg |-> "m"]), Null}

\* rows of an _all_docs or view answer
Rows ==
    {Dict([id |-> "a", key |-> "a", doc |-> d]) : d \in RowDocs}
    \cup {Dict([key |-> "b", error |-> e]) : e \in ErrorStrings}

\* decoded JSON values a server sends
JsonValues ==
    {List(items) : items \in SeqsUpTo(DbNames \cup BulkItems, MaxItems)}
    \cup {Dict([rows |-> rs]) : rs \in SeqsUpTo(Rows, MaxItems)}
    \cup {Dict([error |-> e, reason |-> "missing"]) : e \in ErrorStrings}
    \cup {Dict([error |-> "not_found"]),
          Dict([error |-> "forbidden", reason |-> "no", rows |->
                    <<Dict([key |-> "b", error |-> "not_found"])>>]),
          Dict([ok |-> TRUE, id |-> "a", rev |-> "1-x"]),
          Dict([_id |-> "a", _rev |-> "1-x", msg |-> "m"]),
          Dict([uuids |-> <<Str(<<"u1">>)>>]),
          Null}

\* response bodies: no bytes, bytes that are not JSON, JSON text
Bodies ==
    {[raw |-> "empty"], [raw |-> "bytes"]}
    \cup {[raw |-> "json", val |-> v] : v \in JsonValues}

\* status codes a server answers with
StatusCodes == {200, 304, 400, 401, 404, 405, 409, 412, 500}

Responses == [code : StatusCodes, body : Bodies]

\* tornado.escape.json_decode
json_decode(body) ==
    IF body.raw = "json"
    THEN Returned(body.val)
    ELSE Raised(PyError("ValueError", "No JSON object could be decoded"))

\* ------------------------------------------------- response interpreter
to_code(err) ==
    CASE err = "not_found" -> 404
      [] err = "conflict"  -> 409
      [] OTHER             -> 400

\* the first element at which `for item in obj: if 'error' in item` does
\* not go on to the next element; 0 when the loop runs to its end
FirstHit(items) ==
    LET hits == {i \in 1..Len(items) : Contains(items[i], "error") # "no"}
    IN IF hits = {} THEN 0 ELSE CHOOSE i \in hits : \A j \in hits : i <= j

\* what `'error' in x` and the reads of x[k] for the keys ks (in order)
\* raise for x, "ok" if nothing
ReadStatus(x, ks) ==
    IF Contains(x, "error") = "TypeError" THEN "TypeError"
    ELSE LET bad == {i \in 1..Len(ks) : GetItemStatus(x, ks[i]) # "ok"}
         IN IF bad = {} THEN "ok"
            ELSE GetItemStatus(x, ks[CHOOSE i \in bad : \A j \in bad : i <= j])

\* the raise statement for a list element with an error
ItemError(item, resp) ==
    IF ReadStatus(item, <<"error", "reason">>) # "ok"
    THEN PyError(ReadStatus(item, <<"error", "reason">>), "item")
    ELSE relax_exception(
            HTTPError(to_code(item.d.error), item.d.reason, <<resp>>))

\* RowError taking the status of the response for every error string but
\* "not_found"
RowErrorByStatus(row, resp) ==
    IF ReadStatus(row, <<"error">>) # "ok"
    THEN PyError(ReadStatus(row, <<"error">>), "row")
    ELSE relax_exception(
            HTTPError(IF row.d.error = "not_found" THEN 404 ELSE resp.code,
                      row.d.error, <<resp>>))

\* the raise statement for a row with an error
RowError(row, resp) ==
    IF ReadStatus(row, <<"error">>) # "ok"
    THEN PyError(ReadStatus(row, <<"error">>), "row")
    ELSE relax_exception(
            HTTPError(to_code(row.d.error), row.d.error, <<resp>>))

\* the raise statement for a top-level error
TopError(obj, resp) ==
    IF ReadStatus(obj, <<"reason">>) # "ok"
    THEN PyError(ReadStatus(obj, <<"reason">>), "reason")
    ELSE relax_exception(HTTPError(resp.code, obj.d.reason, <<resp>>))

\* ParseDecoded without the scan of `rows`
ParseDecodedNoRows(obj, resp) ==
    IF obj.t = "list"
    THEN LET i == FirstHit(obj.items)
         IN IF i = 0 THEN Returned(obj)
            ELSE Raised(ItemError(obj.items[i], resp))
    ELSE IF Contains(obj, "error") = "TypeError"
    THEN Raised(PyError("TypeError", "argument is not iterable"))
    ELSE IF Contains(obj, "error") = "yes"
    THEN Raised(TopError(obj, resp))
    ELSE Returned(obj)

ParseDecoded(obj, resp) ==
    IF obj.t = "list"
    THEN LET i == FirstHit(obj.items)
         IN IF i = 0 THEN Returned(obj)
            ELSE Raised(ItemError(obj.items[i], resp))
    ELSE IF Contains(obj, "error") = "TypeError"
    THEN Raised(PyError("TypeError", "argument is not iterable"))
    ELSE IF Contains(obj, "error") = "yes"
    THEN Raised(TopError(obj, resp))
    ELSE IF Contains(obj, "rows") = "yes"
    THEN LET i == FirstHit(obj.d.rows)
         IN IF i = 0 THEN Returned(obj)
            ELSE Raised(RowError(obj.d.rows[i], resp))
    ELSE Returned(obj)

_parse_response(resp) ==
    LET dec == json_decode(resp.body)
    IN IF dec.kind = "raise" THEN dec ELSE ParseDecoded(dec.val, resp)

\* _parse_headers: the dict {"code": resp.code} (the response headers the
\* transport adds to it are not modelled)
_parse_headers(resp) == Dict([code |-> resp.code])

\* ------------------------------------------------------ request headers
\* a headers dict is a function from the header names to a value or Absent
Absent == "<absent>"
HeaderNames == {"Accept", "Content-Type", "Authorization"}
NoHeaders == [n \in HeaderNames |-> Absent]

\* h.update(h2)
Update(h, h2) == [n \in HeaderNames |-> IF h2[n] # Absent THEN h2[n] ELSE h[n]]

\* the request_args a client is constructed with
ConfiguredArgs == {[headers |-> NoHeaders]}

\* json_encode(value), and the empty body ''
json_encode(v) == [enc |-> "json", val |-> v]
EmptyBody == [enc |-> "empty"]
RawBody(data) == [enc |-> "raw", data |-> data]

\* truthiness of a request body
BodyTruthy(b) == b.enc # "empty" /\ (b.enc = "raw" => b.data # "")

\* ------------------------------------------------ text: JSON and URLs
\* A text is a sequence of fragments: a fragment is one special character
\* or a run of letters, digits, '_', '.' and '-'.
Num(n) == [t |-> "num", n |-> n]

\* the concatenation of a sequence of texts
RECURSIVE Concat(_)
Concat(ts) == IF ts = <<>> THEN <<>> ELSE Head(ts) \o Concat(Tail(ts))

\* the texts of ts with the text sep between them
RECURSIVE Join(_, _)
Join(ts, sep) ==
    IF ts = <<>> THEN <<>>
    ELSE IF Len(ts) = 1 THEN ts[1]
    ELSE ts[1] \o sep \o Join(Tail(ts), sep)

\* tornado.escape.url_escape (urllib quote_plus of the UTF-8 bytes): a
\* space becomes '+', a reserved character its %XX, the rest is kept
EscapeFragment(f) ==
    CASE f = " " -> "+"
      [] f = "\"" -> "%22"
      [] f = "/" -> "%2F"
      [] f = "<" -> "%3C"
      [] f = "\\" -> "%5C"
      [] f = "[" -> "%5B"
      [] f = "]" -> "%5D"
      [] f = "," -> "%2C"
      [] OTHER -> f
url_escape(text) == [i \in 1..Len(text) |-> EscapeFragment(text[i])]

\* json.dumps of a str: quotes around it, '"' and '\' get a backslash
JsonStringBody(text) ==
    Concat([i \in 1..Len(text) |->
                IF text[i] \in {"\"", "\\"} THEN <<"\\", text[i]>>
                ELSE <<text[i]>>])

\* the decimal digits of a natural number
RECURSIVE Decimal(_)
Decimal(n) ==
    LET digit == <<"0", "1", "2", "3", "4", "5", "6", "7", "8", "9">>
    IN IF n < 10 THEN <<digit[n + 1]>>
       ELSE Decimal(n \div 10) \o <<digit[(n % 10) + 1]>>

\* json.dumps(value, allow_nan=False) for the values given as query
\* parameters: str, int, bool, None and lists of them
RECURSIVE Dumps(_)
Dumps(v) ==
    CASE v.t = "str" -> <<"\"">> \o JsonStringBody(v.s) \o <<"\"">>
      [] v.t = "num" -> Decimal(v.n)
      [] v.t = "bool" -> IF v.b THEN <<"true">> ELSE <<"false">>
      [] v.t = "null" -> <<"null">>
      [] v.t = "list" ->
            <<"[">> \o Join([i \in 1..Len(v.items) |-> Dumps(v.items[i])],
                            <<",", " ">>) \o <<"]">>

\* text.replace("</", "<\\/")
RECURSIVE ReplaceCloseTag(_)
ReplaceCloseTag(text) ==
    IF text = <<>> THEN <<>>
    ELSE IF Len(text) >= 2 /\ text[1] = "<" /\ text[2] = "/"
    THEN <<"<", "\\", "/">> \o ReplaceCloseTag(Tail(Tail(text)))
    ELSE <<Head(text)>> \o ReplaceCloseTag(Tail(text))

\* the text json_encode(value) returns
JsonText(v) == ReplaceCloseTag(Dumps(v))

\* --------------------------------------------------- the caller's inputs
DocNoId == Dict([msg |-> "m"])
DocIdOnly == Dict([_id |-> "a", msg |-> "m"])
DocIdRev == Dict([_id |-> "a", _rev |-> "1-x", msg |-> "m"])
DocWithAtt ==
    Dict([_id |-> "a", _rev |-> "1-x",
          _attachments |-> [att1 |-> [content_type |-> "text/plain"]]])
DocArgs == {DocNoId, DocIdOnly, DocIdRev}

AttFull == [mimetype |-> "text/plain", name |-> "att1", data |-> "bytes"]
AttNoData == [mimetype |-> "text/plain", name |-> "att1"]
AttNoMime == [name |-> "att1", data |-> "bytes"]
AttNoName == [mimetype |-> "text/plain", data |-> "bytes"]

NoMime == "<None>"

\* how the strings of the documents read as text
TextOf(str) ==
    CASE str = "_design/test" -> <<"_design", "/", "test">>
      [] str = "my att" -> <<"my", " ", "att">>
      [] OTHER -> <<str>>

\* self.db_name, and the arguments of the calls that the model keeps fixed
db_name == <<"testdb">>
DocId == <<"a">>
DocIds == <<"a", "b">>
DesignDocName == <<"test">>
ViewName == <<"msg">>
ViewDoc == Dict([map |-> "fn"])
EmptyDict == Dict([k \in {} |-> Null])

\* keyword arguments of a view call: name and value, in the order given
Kwarg(k, v) == [k |-> k, v |-> v]
KeysArg == List(<<Str(<<"k1">>)>>)

SimpleOps == {"create_db", "delete_db", "list_dbs", "info_db", "pull_db",
              "uuids", "get_doc", "has_doc", "get_docs", "save_docs"}
ViewOps == {"view", "view_all_docs", "temp_view"}

\* the view calls with the keyword arguments kw and the view_docs vd
ViewCalls(kw, vd) ==
    {[name |-> n, kwargs |-> k] : n \in {"view", "view_all_docs"}, k \in kw}
    \cup {[name |-> "temp_view", view_doc |-> d, kwargs |-> k] :
            d \in vd, k \in kw}

Calls ==
    {[name |-> n] : n \in SimpleOps}
    \cup {[name |-> n, doc |-> d] :
            n \in {"save_doc", "delete_doc", "delete_attachment"},
            d \in DocArgs}
    \cup {[name |-> "delete_docs", docs |-> ds, all_or_nothing |-> aon] :
            ds \in {<<DocIdRev>>, <<DocIdRev, DocIdOnly>>}, aon \in BOOLEAN}
    \cup {[name |-> "get_attachment", doc |-> d, attachment_name |-> "att1",
           mimetype |-> m] :
            d \in {DocNoId, DocIdRev, DocWithAtt},
            m \in {NoMime, "text/plain"}}
    \cup {[name |-> "save_attachment", doc |-> DocIdRev, attachment |-> a] :
            a \in {AttFull, AttNoData, AttNoMime, AttNoName}}
    \cup ViewCalls({<<>>, <<Kwarg("keys", KeysArg)>>}, {ViewDoc})

\* ---------------------------------------------------- operation facade
\* What the body of an operation does up to its _http_* call: it raises
\* (local validation), or it calls _http_<via> with a url, a body and
\* headers. A url is its path segments and its query parameters.
Url(path, query) == [path |-> path, query |-> query]
Param(name, value) == [name |-> name, value |-> value]

Plan(via, url, body, headers) ==
    [kind |-> "http", via |-> via, url |-> url, body |-> body,
     headers |-> headers]

\* '_rev' not in doc or '_id' not in doc
LacksIdOrRev(doc) ==
    "_rev" \notin DOMAIN doc.d \/ "_id" \notin DOMAIN doc.d

\* '{0}/{1}'.format(self.db_name, url_escape(doc['_id']))
DocPath(doc) == <<db_name, url_escape(TextOf(doc.d._id))>>

\* save_doc that PUTs only a document with `_id` and `_rev`
save_doc_put_existing(c) ==
    IF {"_id", "_rev"} \subseteq DOMAIN c.doc.d
    THEN Plan("put", Url(DocPath(c.doc), <<>>), json_encode(c.doc), NoHeaders)
    ELSE Plan("post", Url(<<db_name>>, <<>>), json_encode(c.doc), NoHeaders)

save_doc(c) ==
    IF "_id" \in DOMAIN c.doc.d
    THEN Plan("put", Url(DocPath(c.doc), <<>>), json_encode(c.doc), NoHeaders)
    ELSE Plan("post", Url(<<db_name>>, <<>>), json_encode(c.doc), NoHeaders)

\* a list `deleted` that keeps every field of the documents
DeletedWholeDocs(docs) ==
    [i \in 1..Len(docs) |->
        Dict([k \in DOMAIN docs[i].d \cup {"_deleted"} |->
                 IF k = "_deleted" THEN TRUE ELSE docs[i].d[k]])]

\* a list `deleted` without the `_deleted` marks
DeletedUnmarked(docs) ==
    [i \in 1..Len(docs) |->
        Dict([_id |-> docs[i].d._id, _rev |-> docs[i].d._rev])]

\* the list `deleted` of delete_docs
Deleted(docs) ==
    [i \in 1..Len(docs) |->
        Dict([_id |-> docs[i].d._id, _rev |-> docs[i].d._rev,
              _deleted |-> TRUE])]

BulkUrl == Url(<<db_name, <<"_bulk_docs">>>>, <<>>)

\* the arguments of a call, where the call record does not give them
DocsArg(c) == IF "docs" \in DOMAIN c THEN c.docs ELSE <<DocIdRev>>
DocIdArg(c) == IF "doc_id" \in DOMAIN c THEN TextOf(c.doc_id) ELSE DocId

save_docs(c) ==
    Plan("post", BulkUrl,
         json_encode(Dict([all_or_nothing |-> FALSE, docs |-> DocsArg(c)])),
         NoHeaders)

\* delete_docs without the test of `_id` and `_rev`
delete_docs_unchecked(c) ==
    Plan("post", BulkUrl,
         json_encode(Dict([all_or_nothing |-> c.all_or_nothing,
                           docs |-> DeletedWholeDocs(c.docs)])),
         NoHeaders)

delete_docs(c) ==
    IF \E i \in 1..Len(c.docs) : LacksIdOrRev(c.docs[i])
    THEN Raised(PyError("KeyError", "Missing id or revision"))
    ELSE Plan("post", BulkUrl,
              json_encode(Dict([all_or_nothing |-> c.all_or_nothing,
                                docs |-> Deleted(c.docs)])),
              NoHeaders)

\* the str that a json_encode result is, for the values of query parameters
EncodedText(b) == JsonText(b.val)

\* body.update({'keys': value})
DictUpdate(body, key, value) ==
    Dict([k \in DOMAIN body.d \cup {key} |->
             IF k = key THEN value ELSE body.d[k]])

\* body = kwargs.get('body', {}): the view_doc that temp_view passes, the
\* object itself and no copy of it, or a new empty dict
ViewStartBody(c) == IF c.name = "temp_view" THEN c.view_doc ELSE EmptyDict

\* the object `body` after the loop over kwargs
ViewBody(c) ==
    IF \E i \in 1..Len(c.kwargs) : c.kwargs[i].k = "keys"
    THEN LET i == CHOOSE i \in 1..Len(c.kwargs) : c.kwargs[i].k = "keys"
         IN DictUpdate(ViewStartBody(c), "keys", c.kwargs[i].v)
    ELSE ViewStartBody(c)

\* an encoding that JSON-encodes every value
OptionValueAlwaysJson(kw) == url_escape(EncodedText(json_encode(kw.v)))

\* url_escape(value if key in ('startkey_docid', 'endkey_docid')
\*            else json_encode(value))
OptionValue(kw) ==
    url_escape(IF kw.k \in {"startkey_docid", "endkey_docid"}
               THEN kw.v.s
               ELSE EncodedText(json_encode(kw.v)))

\* the list `options`: one 'key=value' per keyword argument but `keys`
ViewOptions(kwargs) ==
    LET others == SelectSeq(kwargs, LAMBDA kw : kw.k # "keys")
    IN [i \in 1..Len(others) |-> Param(others[i].k, OptionValue(others[i]))]

\* the url that view, view_all_docs and temp_view hand to _view
ViewPath(c) ==
    CASE c.name = "view" ->
            <<db_name, <<"_design">>, DesignDocName, <<"_view">>, ViewName>>
      [] c.name = "view_all_docs" -> <<db_name, <<"_all_docs">>>>
      [] c.name = "temp_view" -> <<db_name, <<"_temp_view">>>>

\* a _view that looks at `keys` alone to choose the method
_view_by_keys(c) ==
    IF \E i \in 1..Len(c.kwargs) : c.kwargs[i].k = "keys"
    THEN Plan("post", Url(ViewPath(c), ViewOptions(c.kwargs)),
              json_encode(ViewBody(c)), NoHeaders)
    ELSE Plan("get", Url(ViewPath(c), ViewOptions(c.kwargs)), EmptyBody,
              NoHeaders)

\* a _view that leaves `keys` among the options
_view_keys_in_query(c) ==
    Plan("get",
         Url(ViewPath(c),
             [i \in 1..Len(c.kwargs) |->
                 Param(c.kwargs[i].k, OptionValue(c.kwargs[i]))]),
         EmptyBody, NoHeaders)

\* _view: POST with the JSON of `body` when body is not empty, else GET
_view(c) ==
    IF DOMAIN ViewBody(c).d # {}
    THEN Plan("post", Url(ViewPath(c), ViewOptions(c.kwargs)),
              json_encode(ViewBody(c)), NoHeaders)
    ELSE Plan("get", Url(ViewPath(c), ViewOptions(c.kwargs)), EmptyBody,
              NoHeaders)

get_attachment(c) ==
    IF "_id" \notin DOMAIN c.doc.d
    THEN Raised(PyError("ValueError", "Missing key named _id in doc"))
    ELSE IF c.mimetype = NoMime /\ "_attachments" \notin DOMAIN c.doc.d
    THEN Raised(PyError("ValueError", "No attachments in doc"))
    ELSE IF c.mimetype = NoMime
            /\ c.attachment_name \notin DOMAIN c.doc.d._attachments
    THEN Raised(PyError("ValueError", "No attachment by the given name"))
    ELSE LET mimetype ==
                IF c.mimetype = NoMime
                THEN c.doc.d._attachments[c.attachment_name].content_type
                ELSE c.mimetype
         IN Plan("get",
                 Url(DocPath(c.doc)
                        \o <<url_escape(TextOf(c.attachment_name))>>, <<>>),
                 EmptyBody, [NoHeaders EXCEPT !["Accept"] = mimetype])

\* '?rev={0}'.format(doc['_rev']) if '_rev' in doc else ''
RevParam(doc) ==
    IF "_rev" \in DOMAIN doc.d
    THEN <<Param("rev", TextOf(doc.d._rev))>> ELSE <<>>

save_attachment(c) ==
    IF \E k \in {"mimetype", "name", "data"} : k \notin DOMAIN c.attachment
    THEN Raised(PyError("KeyError", "Attachment dict is missing keys"))
    ELSE IF "_id" \notin DOMAIN c.doc.d
    THEN Raised(PyError("KeyError", "_id"))
    ELSE Plan("put",
              Url(DocPath(c.doc) \o <<url_escape(TextOf(c.attachment.name))>>,
                  RevParam(c.doc)),
              RawBody(c.attachment.data),
              [NoHeaders EXCEPT !["Content-Type"] = c.attachment.mimetype])

Facade(c) ==
    CASE c.name = "create_db" ->
            Plan("put", Url(<<db_name>>, <<>>), EmptyBody, NoHeaders)
      [] c.name = "delete_db" ->
            Plan("delete", Url(<<db_name>>, <<>>), EmptyBody, NoHeaders)
      [] c.name = "list_dbs" ->
            Plan("get", Url(<<<<"_all_dbs">>>>, <<>>), EmptyBody, NoHeaders)
      [] c.name = "info_db" ->
            Plan("get", Url(<<db_name>>, <<>>), EmptyBody, NoHeaders)
      [] c.name = "uuids" ->
            Plan("get", Url(<<<<"_uuids">>>>, <<Param("count", Decimal(1))>>),
                 EmptyBody, NoHeaders)
      [] c.name = "get_doc" ->
            Plan("get", Url(<<db_name, url_escape(DocIdArg(c))>>, <<>>),
                 EmptyBody, NoHeaders)
      [] c.name = "has_doc" ->
            Plan("head", Url(<<db_name, url_escape(DocId)>>, <<>>), EmptyBody,
                 NoHeaders)
      [] c.name = "pull_db" ->
            Plan("post", Url(<<<<"_replicate">>>>, <<>>),
                 json_encode(Dict([source |-> "src", target |-> "testdb",
                                   create_target |-> FALSE])),
                 NoHeaders)
      [] c.name = "get_docs" ->
            Plan("post",
                 Url(<<db_name, <<"_all_docs">>>>,
                     <<Param("include_docs", <<"true">>)>>),
                 json_encode(Dict([keys |-> DocIds])), NoHeaders)
      [] c.name = "save_docs" -> save_docs(c)
      [] c.name = "save_doc" -> save_doc(c)
      [] c.name = "delete_doc" ->
            IF LacksIdOrRev(c.doc)
            THEN Raised(PyError("KeyError", "Missing id or revision"))
            ELSE Plan("delete", Url(DocPath(c.doc), RevParam(c.doc)),
                      EmptyBody, NoHeaders)
      [] c.name = "delete_attachment" ->
            IF LacksIdOrRev(c.doc)
            THEN Raised(PyError("KeyError", "Missing id or revision"))
            ELSE Plan("delete",
                      Url(DocPath(c.doc) \o <<url_escape(TextOf("att1"))>>,
                          RevParam(c.doc)),
                      EmptyBody, NoHeaders)
      [] c.name = "delete_docs" -> delete_docs(c)
      [] c.name = "get_attachment" -> get_attachment(c)
      [] c.name = "save_attachment" -> save_attachment(c)
      [] c.name \in ViewOps -> _view(c)

\* the caller's objects after the operation: the call's arguments, where
\* the view_doc of temp_view is the object that _view updated as `body`
ArgsAfter(c) ==
    IF c.name = "temp_view" THEN [c EXCEPT !.view_doc = ViewBody(c)] ELSE c

\* ------------------------------------------------- the basic http methods
\* the headers of the HTTPRequest each _http_* method builds
RequestHeaders(args, plan) ==
    LET merged == Update(args.headers, plan.headers)
        json == "application/json"
    IN CASE plan.via = "get" ->
              IF merged["Accept"] = Absent
              THEN [merged EXCEPT !["Accept"] = json] ELSE merged
         [] plan.via = "post" ->
              [Update(args.headers, NoHeaders) EXCEPT
                    !["Accept"] = json, !["Content-Type"] = json]
         [] plan.via = "put" ->
              LET ct == IF BodyTruthy(plan.body)
                           /\ merged["Content-Type"] = Absent
                        THEN [merged EXCEPT !["Content-Type"] = json]
                        ELSE merged
              IN IF ct["Accept"] = Absent
                 THEN [ct EXCEPT !["Accept"] = json] ELSE ct
         [] plan.via = "delete" ->
              [args.headers EXCEPT !["Accept"] = json]
         [] plan.via = "head" -> args.headers

\* `decode` of _http_get: the body is decoded unless an Accept header was
\* given (by the call or by the configured request_args)
Decode(args, plan) == Update(args.headers, plan.headers)["Accept"] = Absent

\* every method, HEAD too, decoding the body of its response
HttpResultDecodingAll(via, decode, resp) == _parse_response(resp)

\* what an _http_* method does with the response it got
HttpResult(via, decode, resp) ==
    CASE via = "get" ->
            IF decode THEN _parse_response(resp) ELSE Returned(Raw(resp.body))
      [] via \in {"post", "put", "delete"} -> _parse_response(resp)
      [] via = "head" -> Returned(_parse_headers(resp))

\* AsyncHTTPClient.fetch for a response of the server: an HTTPError that
\* carries the response unless the status is 2xx
fetch(resp) ==
    IF resp.code >= 200 /\ resp.code < 300
    THEN Returned(resp)
    ELSE Raised(HTTPError(resp.code, NoneMsg, <<resp>>))

\* the try/except around fetch, and the return of the _http_* method
AfterFetch(via, decode, f) ==
    IF f.kind = "return" THEN HttpResult(via, decode, f.val)
    ELSE IF ~IsHTTPError(f.exc) THEN f
    ELSE IF f.exc.response = <<>> THEN Raised(relax_exception(f.exc))
    ELSE HttpResult(via, decode, f.exc.response[1])

\* what an operation does with the result r of its _http_* call
PostTransform(name, r) ==
    IF r.kind = "raise" THEN r
    ELSE CASE name = "uuids" ->
                IF GetItemStatus(r.val, "uuids") = "ok"
                THEN Returned(List(r.val.d.uuids))
                ELSE Raised(PyError(GetItemStatus(r.val, "uuids"), "uuids"))
           [] name = "has_doc" -> Returned(Bool(r.val.d.code = 200))
           [] name = "get_docs" ->
                IF GetItemStatus(r.val, "rows") # "ok"
                THEN Raised(PyError(GetItemStatus(r.val, "rows"), "rows"))
                ELSE LET rows == r.val.d.rows
                     IN IF \E i \in 1..Len(rows) :
                                GetItemStatus(rows[i], "doc") # "ok"
                        THEN Raised(PyError("KeyError", "doc"))
                        ELSE Returned(List([i \in 1..Len(rows) |->
                                                rows[i].d.doc]))
           [] OTHER -> r

\* _test_closed and the test of _http_head: the raise statement
ClosedError == CouchException(PyError("str", "Database connection is closed."))

\* the errors of IOLoop.run_sync on an IOLoop that was closed (the wrapper
\* of BlockingCouch calls it without looking at _closed); which one depends
\* on the tornado release
ClosedLoopErrors == {"RuntimeError", "TypeError"}

\* failures of the transport that come with no response: tornado's own
\* HTTPError 599, or an error of the socket layer
TransportFailures ==
    {HTTPError(599, "Timeout", <<>>), PyError("IOError", "Connection refused")}

\* ------------------------------------------------ IOLoops and threads
\* bound: the operations the main thread starts on its AsyncCouch
MaxAsyncCalls == 2

Instances == {"b1", "b2"}
Threads == {"t1", "t2"}
\* the coroutine of an AsyncCouch operation, and the thread of the main loop
AsyncTask == "async"
MainThread == "main"
Tasks == Threads \cup {AsyncTask}
NoThread == "none"
NoInstance == "none"

\* IOLoop objects: MainLoop is the current IOLoop of the process
MainLoop == 1
NoLoop == 0
Loops == 1..(1 + Cardinality(Instances))

\* IOLoop(make_current=True) where BlockingCouch.__init__ makes its loop
BlockingLoopMadeCurrent(fresh, cur) == [loop |-> fresh, current |-> fresh]

\* BlockingCouch.__init__: io_loop = IOLoop(make_current=False), a new
\* IOLoop object; the current IOLoop stays what it was
BlockingLoop(fresh, cur) == [loop |-> fresh, current |-> cur]

\* ---------------------------------------------------------------- state
VARIABLES
    blocking,      \* TRUE for a BlockingCouch, FALSE for an AsyncCouch
    request_args,  \* self.request_args
    closed,        \* self._closed
    clientCloses,  \* how often self._client.close() ran
    loopCloses,    \* how often self.io_loop.close() ran
    pc,            \* "idle", "fetching" (a request is with the transport), "done"
    call,          \* the operation call in progress, or the last one
    request,       \* the HTTPRequest of the call: <<>> or <<[method, headers, body]>>
    decode,        \* the local `decode` of _http_get
    fetches,       \* the number of fetches the call has issued
    response,      \* <<>> or <<resp>>: the response the call got
    outcome,       \* what the call gave its caller: Returned(v) or Raised(e)
    err,           \* the exception handed to relax_exception
    relaxed,       \* <<>>, or <<ce>>: what relax_exception returned for err
    io_loop,       \* self.io_loop of each BlockingCouch; NoLoop before __init__
    current,       \* the current IOLoop of the process
    nextLoop,      \* the next IOLoop object that IOLoop() makes
    mayCall,       \* the instances each thread calls
    tpc,           \* where each thread is in the wrapper of __getattribute__
    tinst,         \* the instance each thread is calling
    callbacks,     \* per IOLoop: the callbacks added and not yet run
    io,            \* per IOLoop: the coroutines waiting for their fetch
    running,       \* per IOLoop: the thread inside start(), or NoThread
    stopReq,       \* per IOLoop: stop() was called
    done,          \* per task: its future is done
    ranBy,         \* per task: the threads that ran a step of it
    asyncCalls,    \* operations started on the AsyncCouch of the main thread
    rcall,         \* a call and the objects the caller passes to it
    built,         \* <<>>, or <<what the operation did up to its _http_* call>>
    after,         \* <<>>, or <<the caller's objects after the operation>>
    closeCalls,    \* the calls of close(), counted by SpecLifecycle
    store,         \* the documents of the database on the server
    session,       \* the calls made against that server, with their outcomes
    ctor_args,     \* src/couch.py: the keyword arguments of the constructor
    legacy_args,   \* src/couch.py: self.request_args of both clients
    lpc,           \* src/couch.py: "idle", "waiting" (for the transport), "done"
    lcall,         \* src/couch.py: the call made on both clients
    areq,          \* src/couch.py: <<>>, or <<the request of the AsyncCouch>>
    breq,          \* src/couch.py: <<>>, or <<the request of the BlockingCouch>>
    cbs,           \* src/couch.py: the values passed to the callback so far
    araised,       \* src/couch.py: <<>>, or <<what the AsyncCouch call raised>>
    bout,          \* src/couch.py: what the BlockingCouch call returned or raised
    client,        \* self.db_name, self.couch_url and self.request_args
    configured,    \* the arguments of __init__ and of the latest use()
    requests       \* the HTTPRequests built so far, each answered or not

clientVars == <<blocking, request_args, closed, clientCloses, loopCloses, pc,
                call, request, decode, fetches, response, outcome>>
classifyVars == <<err, relaxed>>
loopVars == <<io_loop, current, nextLoop, mayCall, tpc, tinst, callbacks, io,
              running, stopReq, done, ranBy, asyncCalls>>
requestVars == <<rcall, built, after>>
serverVars == <<store, session>>
legacyVars == <<ctor_args, legacy_args, lpc, lcall, areq, breq, cbs, araised, bout>>
configVars == <<client, configured, requests>>
laterVars == <<serverVars, legacyVars, configVars>>
baseVars == <<clientVars, classifyVars, loopVars, requestVars, closeCalls,
              configVars>>
vars == <<clientVars, classifyVars, loopVars, requestVars, closeCalls, laterVars>>

NoCall == [name |-> "none"]
NoOutcome == [kind |-> "none"]
NoError == PyError("none", "")

ClassifyIdle == err = NoError /\ relaxed = <<>>

\* no request being built
ServerIdle == store = <<>> /\ session = <<>>
LegacyIdle ==
    /\ ctor_args = <<>> /\ legacy_args = <<>> /\ lpc = "idle" /\ lcall = NoCall
    /\ areq = <<>> /\ breq = <<>> /\ cbs = <<>> /\ araised = <<>>
    /\ bout = NoOutcome
ConfigIdle == client = <<>> /\ configured = <<>> /\ requests = <<>>
LaterIdle == ServerIdle /\ LegacyIdle /\ ConfigIdle
CallerIdle == rcall = NoCall /\ built = <<>> /\ after = <<>> /\ closeCalls = 0
RequestIdle == CallerIdle /\ LaterIdle

\* no BlockingCouch constructed, no thread calling
LoopIdle ==
    /\ io_loop = [b \in Instances |-> NoLoop]
    /\ current = MainLoop
    /\ nextLoop = MainLoop + 1
    /\ mayCall = [t \in Threads |-> {}]
    /\ tpc = [t \in Threads |-> "idle"]
    /\ tinst = [t \in Threads |-> NoInstance]
    /\ callbacks = [l \in Loops |-> {}]
    /\ io = [l \in Loops |-> {}]
    /\ running = [l \in Loops |-> IF l = MainLoop THEN MainThread ELSE NoThread]
    /\ stopReq = [l \in Loops |-> FALSE]
    /\ done = [k \in Tasks |-> FALSE]
    /\ ranBy = [k \in Tasks |-> {}]
    /\ asyncCalls = 0

Init ==
    /\ ClassifyIdle
    /\ RequestIdle
    /\ LoopIdle
    /\ blocking \in BOOLEAN
    /\ request_args \in ConfiguredArgs
    /\ closed = FALSE
    /\ clientCloses = 0
    /\ loopCloses = 0
    /\ pc = "idle"
    /\ call = NoCall
    /\ request = <<>>
    /\ decode = TRUE
    /\ fetches = 0
    /\ response = <<>>
    /\ outcome = NoOutcome

\* A call that ends before any fetch, with the outcome o
EndsEarly(c, o) ==
    /\ pc' = "done"
    /\ call' = c
    /\ request' = <<>>
    /\ decode' = TRUE
    /\ fetches' = 0
    /\ response' = <<>>
    /\ outcome' = o
    /\ UNCHANGED <<blocking, request_args, closed, clientCloses, loopCloses>>
    /\ UNCHANGED <<classifyVars, loopVars, requestVars, closeCalls, laterVars>>

\* BlockingCouch: the wrapper of __getattribute__ calls run_sync on the
\* private IOLoop, which close() has closed
CallOnClosedLoop(c) ==
    /\ pc = "idle"
    /\ blocking /\ closed
    /\ \E e \in ClosedLoopErrors : EndsEarly(c, Raised(PyError(e, "IOLoop")))

\* An operation that raises on its arguments, before its _http_* call
CallRejected(c) ==
    /\ pc = "idle"
    /\ ~(blocking /\ closed)
    /\ Facade(c).kind = "raise"
    /\ EndsEarly(c, Facade(c))

\* An operation whose _http_* call finds the client closed
CallClosed(c) ==
    /\ pc = "idle"
    /\ ~(blocking /\ closed)
    /\ Facade(c).kind = "http"
    /\ closed
    /\ EndsEarly(c, Raised(ClosedError))

\* An operation whose _http_* call builds the request and hands it to
\* self._client.fetch
CallFetch(c) ==
    /\ pc = "idle"
    /\ Facade(c).kind = "http"
    /\ ~closed
    /\ pc' = "fetching"
    /\ call' = c
    /\ request' = <<[method |-> Facade(c).via,
                     url |-> Facade(c).url,
                     headers |-> RequestHeaders(request_args, Facade(c)),
                     body |-> Facade(c).body]>>
    /\ decode' = Decode(request_args, Facade(c))
    /\ fetches' = 1
    /\ response' = <<>>
    /\ outcome' = NoOutcome
    /\ UNCHANGED <<blocking, request_args, closed, clientCloses, loopCloses>>
    /\ UNCHANGED <<classifyVars, loopVars, requestVars, closeCalls, laterVars>>

\* an _http_* method that fetches again when fetch raised
FetchAgainOnError(f) == f.kind = "raise"

\* whether the _http_* method calls fetch again after the result f of its
\* fetch: the try/except around fetch is in no loop
FetchAgain(f) == FALSE

\* fetch is over with the result f: the _http_* method and the operation
\* run to their end
FetchEnds(f) ==
    IF FetchAgain(f)
    THEN /\ pc' = "fetching"
         /\ fetches' = fetches + 1
         /\ outcome' = NoOutcome
    ELSE /\ pc' = "done"
         /\ fetches' = fetches
         /\ outcome' = PostTransform(call.name,
                           AfterFetch(request[1].method, decode, f))

\* The server answers
ServerResponds(resp) ==
    /\ pc = "fetching"
    /\ response' = <<resp>>
    /\ FetchEnds(fetch(resp))
    /\ UNCHANGED <<blocking, request_args, closed, clientCloses, loopCloses,
                   call, request, decode>>
    /\ UNCHANGED <<classifyVars, loopVars, requestVars, closeCalls, laterVars>>

\* The transport fails without a response
TransportFails(e) ==
    /\ pc = "fetching"
    /\ response' = <<>>
    /\ FetchEnds(Raised(e))
    /\ UNCHANGED <<blocking, request_args, closed, clientCloses, loopCloses,
                   call, request, decode>>
    /\ UNCHANGED <<classifyVars, loopVars, requestVars, closeCalls, laterVars>>

\* The caller has the outcome of its call; the call's frame is gone
Return ==
    /\ pc = "done"
    /\ pc' = "idle"
    /\ call' = NoCall
    /\ request' = <<>>
    /\ decode' = TRUE
    /\ fetches' = 0
    /\ response' = <<>>
    /\ outcome' = NoOutcome
    /\ UNCHANGED <<blocking, request_args, closed, clientCloses, loopCloses>>
    /\ UNCHANGED <<classifyVars, loopVars, requestVars, closeCalls, laterVars>>

\* a close() that does not look at self._closed
CloseClientAgain ==
    /\ pc = "idle"
    /\ closed' = TRUE
    /\ clientCloses' = clientCloses + 1
    /\ loopCloses' = IF blocking THEN loopCloses + 1 ELSE loopCloses
    /\ UNCHANGED <<blocking, request_args, pc, call, request, decode, fetches,
                   response, outcome>>

\* close() of AsyncCouch, and of BlockingCouch, which also closes its IOLoop
CloseClient ==
    /\ pc = "idle"
    /\ IF closed
       THEN UNCHANGED <<closed, clientCloses, loopCloses>>
       ELSE /\ closed' = TRUE
            /\ clientCloses' = clientCloses + 1
            /\ loopCloses' = IF blocking THEN loopCloses + 1 ELSE loopCloses
    /\ UNCHANGED <<blocking, request_args, pc, call, request, decode, fetches,
                   response, outcome>>

Close ==
    /\ CloseClient
    /\ UNCHANGED <<classifyVars, loopVars, requestVars, closeCalls, laterVars>>

Next ==
    \/ \E c \in Calls : CallOnClosedLoop(c)
    \/ \E c \in Calls : CallRejected(c)
    \/ \E c \in Calls : CallClosed(c)
    \/ \E c \in Calls : CallFetch(c)
    \/ \E resp \in Responses : ServerResponds(resp)
    \/ \E e \in TransportFailures : TransportFails(e)
    \/ Return
    \/ Close

Spec == Init /\ [][Next]_vars

\* ------------------------------------------------ the life of one client
\* The same client with its close() calls counted and two answers of the
\* server: a success and an error.

\* bound: the calls of close() on one client
MaxCloseCalls == 2

LifecycleResponses ==
    {[code |-> 200,
      body |-> [raw |-> "json",
                val |-> Dict([ok |-> TRUE, id |-> "a", rev |-> "1-x"])]],
     [code |-> 500,
      body |-> [raw |-> "json",
                val |-> Dict([error |-> "forbidden", reason |-> "missing"])]]}

\* close(), counted
CloseCounted ==
    /\ closeCalls < MaxCloseCalls
    /\ CloseClient
    /\ closeCalls' = closeCalls + 1
    /\ UNCHANGED <<classifyVars, loopVars, requestVars, laterVars>>

NextLifecycle ==
    \/ \E c \in Calls : CallOnClosedLoop(c)
    \/ \E c \in Calls : CallRejected(c)
    \/ \E c \in Calls : CallClosed(c)
    \/ \E c \in Calls : CallFetch(c)
    \/ \E resp \in LifecycleResponses : ServerResponds(resp)
    \/ \E e \in TransportFailures : TransportFails(e)
    \/ Return
    \/ CloseCounted

SpecLifecycle == Init /\ [][NextLifecycle]_vars

\* ------------------------------------------- the error classifier alone
\* relax_exception applied to every kind of exception: HTTPErrors of every
\* status with and without a reason and a response, and other exceptions
ClassifyCodes == StatusCodes \cup {200, 201, 403, 599}
ClassifyResponses(code) ==
    {<<>>, <<[code |-> code, body |-> [raw |-> "empty"]]>>,
     <<[code |-> code,
        body |-> [raw |-> "json",
                  val |-> Dict([error |-> "forbidden", reason |-> "missing"])]]>>}
ClassifyInputs ==
    {HTTPError(code, m, r) :
        code \in ClassifyCodes, m \in {"missing", "Timeout", NoneMsg},
        r \in UNION {ClassifyResponses(c) : c \in ClassifyCodes}}
    \cup {PyError("IOError", "Connection refused"),
          PyError("ValueError", "No JSON object could be decoded")}

ClientIdle ==
    /\ blocking = FALSE
    /\ request_args \in ConfiguredArgs
    /\ closed = FALSE
    /\ clientCloses = 0
    /\ loopCloses = 0
    /\ pc = "idle"
    /\ call = NoCall
    /\ request = <<>>
    /\ decode = TRUE
    /\ fetches = 0
    /\ response = <<>>
    /\ outcome = NoOutcome

InitClassify ==
    /\ ClientIdle
    /\ RequestIdle
    /\ LoopIdle
    /\ err \in ClassifyInputs
    /\ relaxed = <<>>

\* ce = relax_exception(e)
Classify ==
    /\ relaxed = <<>>
    /\ relaxed' = <<relax_exception(err)>>
    /\ UNCHANGED <<err, clientVars, loopVars, requestVars, closeCalls, laterVars>>

\* the caller takes ce and hands in the next exception
ClassifyNext ==
    /\ relaxed # <<>>
    /\ err' \in ClassifyInputs
    /\ relaxed' = <<>>
    /\ UNCHANGED <<clientVars, loopVars, requestVars, closeCalls, laterVars>>

NextClassify == Classify \/ ClassifyNext

SpecClassify == InitClassify /\ [][NextClassify]_vars

\* ------------------------------------- BlockingCouch on its private IOLoop
\* The wrapper of BlockingCouch.__getattribute__ is
\*     fn = functools.partial(clb, *args, **kwargs)
\*     return self.io_loop.run_sync(fn)
\* and run_sync adds a callback that starts the coroutine, start()s the
\* loop (an error if the loop is running), the loop runs callbacks and I/O
\* handlers until the stop() that the coroutine's future asks for, and
\* run_sync gives the result of the future (an error if it is not done).

\* the IOLoop of the call a thread is in
LoopOf(t) == io_loop[tinst[t]]

\* the tasks that have work on a loop
OnLoop(l) == callbacks[l] \cup io[l]

\* BlockingCouch(...): __init__ makes the private IOLoop
Construct(b) ==
    /\ io_loop[b] = NoLoop
    /\ io_loop' = [io_loop EXCEPT ![b] = BlockingLoop(nextLoop, current).loop]
    /\ current' = BlockingLoop(nextLoop, current).current
    /\ nextLoop' = nextLoop + 1
    /\ UNCHANGED <<mayCall, tpc, tinst, callbacks, io, running, stopReq, done,
                   ranBy, asyncCalls>>
    /\ UNCHANGED <<clientVars, classifyVars, requestVars, closeCalls, laterVars>>

\* a thread calls a public method: run_sync adds the callback `run`
BeginCall(t, b) ==
    /\ tpc[t] = "idle"
    /\ b \in mayCall[t]
    /\ io_loop[b] # NoLoop
    /\ t \notin OnLoop(io_loop[b])
    /\ tpc' = [tpc EXCEPT ![t] = "added"]
    /\ tinst' = [tinst EXCEPT ![t] = b]
    /\ callbacks' = [callbacks EXCEPT ![io_loop[b]] = @ \cup {t}]
    /\ done' = [done EXCEPT ![t] = FALSE]
    /\ ranBy' = [ranBy EXCEPT ![t] = {}]
    /\ UNCHANGED <<io_loop, current, nextLoop, mayCall, io, running, stopReq,
                   asyncCalls>>
    /\ UNCHANGED <<clientVars, classifyVars, requestVars, closeCalls, laterVars>>

\* run_sync calls start(): RuntimeError when the loop is already running
Start(t) ==
    /\ tpc[t] = "added"
    /\ IF running[LoopOf(t)] # NoThread
       THEN /\ tpc' = [tpc EXCEPT ![t] = "raised"]
            /\ UNCHANGED running
       ELSE /\ tpc' = [tpc EXCEPT ![t] = "looping"]
            /\ running' = [running EXCEPT ![LoopOf(t)] = t]
    /\ UNCHANGED <<io_loop, current, nextLoop, mayCall, tinst, callbacks, io,
                   stopReq, done, ranBy, asyncCalls>>
    /\ UNCHANGED <<clientVars, classifyVars, requestVars, closeCalls, laterVars>>

\* the thread th, running loop l, runs the callback of task k: the coroutine
\* starts and either waits for its fetch (ends = FALSE) or ends at once, as
\* when it raises on its arguments (ends = TRUE); the future of a blocking
\* call, once done, asks the loop to stop
RunOn(th, l, k, ends) ==
    /\ k \in callbacks[l]
    /\ callbacks' = [callbacks EXCEPT ![l] = @ \ {k}]
    /\ ranBy' = [ranBy EXCEPT ![k] = @ \cup {th}]
    /\ io' = [io EXCEPT ![l] = IF ends THEN @ ELSE @ \cup {k}]
    /\ done' = [done EXCEPT ![k] = ends]
    /\ stopReq' = [stopReq EXCEPT ![l] = @ \/ (ends /\ k \in Threads)]
    /\ UNCHANGED <<io_loop, current, nextLoop, mayCall, tpc, tinst, running,
                   asyncCalls>>
    /\ UNCHANGED <<clientVars, classifyVars, requestVars, closeCalls, laterVars>>

\* the thread th, running loop l, handles the answer to the fetch of task k:
\* the coroutine runs to its end
ResumeOn(th, l, k) ==
    /\ k \in io[l]
    /\ io' = [io EXCEPT ![l] = @ \ {k}]
    /\ ranBy' = [ranBy EXCEPT ![k] = @ \cup {th}]
    /\ done' = [done EXCEPT ![k] = TRUE]
    /\ stopReq' = [stopReq EXCEPT ![l] = @ \/ (k \in Threads)]
    /\ UNCHANGED <<io_loop, current, nextLoop, mayCall, tpc, tinst, callbacks,
                   running, asyncCalls>>
    /\ UNCHANGED <<clientVars, classifyVars, requestVars, closeCalls, laterVars>>

\* a thread inside run_sync runs a callback of the loop it started
RunCallback(t, k) ==
    /\ tpc[t] = "looping"
    /\ \E ends \in BOOLEAN : RunOn(t, LoopOf(t), k, ends)

\* a thread inside run_sync handles an I/O event of the loop it started
HandleIO(t, k) ==
    /\ tpc[t] = "looping"
    /\ ResumeOn(t, LoopOf(t), k)

\* the loop stops, start() returns, and run_sync gives the result of the
\* future, or raises TimeoutError when the future is not done
StopLoop(t) ==
    /\ tpc[t] = "looping"
    /\ stopReq[LoopOf(t)]
    /\ running' = [running EXCEPT ![LoopOf(t)] = NoThread]
    /\ stopReq' = [stopReq EXCEPT ![LoopOf(t)] = FALSE]
    /\ tpc' = [tpc EXCEPT ![t] = IF done[t] THEN "returned" ELSE "raised"]
    /\ UNCHANGED <<io_loop, current, nextLoop, mayCall, tinst, callbacks, io,
                   done, ranBy, asyncCalls>>
    /\ UNCHANGED <<clientVars, classifyVars, requestVars, closeCalls, laterVars>>

\* the caller goes on after the call
CallerContinues(t) ==
    /\ tpc[t] \in {"returned", "raised"}
    /\ tpc' = [tpc EXCEPT ![t] = "idle"]
    /\ UNCHANGED <<io_loop, current, nextLoop, mayCall, tinst, callbacks, io,
                   running, stopReq, done, ranBy, asyncCalls>>
    /\ UNCHANGED <<clientVars, classifyVars, requestVars, closeCalls, laterVars>>

\* the main thread starts an operation of an AsyncCouch on the current loop
AsyncCall ==
    /\ asyncCalls < MaxAsyncCalls
    /\ AsyncTask \notin OnLoop(current)
    /\ asyncCalls' = asyncCalls + 1
    /\ callbacks' = [callbacks EXCEPT ![current] = @ \cup {AsyncTask}]
    /\ done' = [done EXCEPT ![AsyncTask] = FALSE]
    /\ UNCHANGED <<io_loop, current, nextLoop, mayCall, tpc, tinst, io,
                   running, stopReq, ranBy>>
    /\ UNCHANGED <<clientVars, classifyVars, requestVars, closeCalls, laterVars>>

\* the main thread, which runs the main loop, runs a callback of it
MainRuns(k) == \E ends \in BOOLEAN : RunOn(MainThread, MainLoop, k, ends)

\* the main thread handles an I/O event of the main loop
MainHandlesIO(k) == ResumeOn(MainThread, MainLoop, k)

NextLoop ==
    \/ \E b \in Instances : Construct(b)
    \/ \E t \in Threads, b \in Instances : BeginCall(t, b)
    \/ \E t \in Threads : Start(t)
    \/ \E t \in Threads, k \in Tasks : RunCallback(t, k)
    \/ \E t \in Threads, k \in Tasks : HandleIO(t, k)
    \/ \E t \in Threads : StopLoop(t)
    \/ \E t \in Threads : CallerContinues(t)
    \/ AsyncCall
    \/ \E k \in Tasks : MainRuns(k)
    \/ \E k \in Tasks : MainHandlesIO(k)

\* every thread has a BlockingCouch of its own
InitLoop ==
    /\ ClientIdle
    /\ RequestIdle
    /\ ClassifyIdle
    /\ LoopIdle!1 /\ LoopIdle!2 /\ LoopIdle!3
    /\ mayCall = [t \in Threads |-> IF t = "t1" THEN {"b1"} ELSE {"b2"}]
    /\ tpc = [t \in Threads |-> "idle"]
    /\ tinst = [t \in Threads |-> NoInstance]
    /\ callbacks = [l \in Loops |-> {}]
    /\ io = [l \in Loops |-> {}]
    /\ running = [l \in Loops |-> IF l = MainLoop THEN MainThread ELSE NoThread]
    /\ stopReq = [l \in Loops |-> FALSE]
    /\ done = [k \in Tasks |-> FALSE]
    /\ ranBy = [k \in Tasks |-> {}]
    /\ asyncCalls = 0

SpecLoop == InitLoop /\ [][NextLoop]_vars

\* two threads share the BlockingCouch b1
InitThreads ==
    /\ ClientIdle
    /\ RequestIdle
    /\ ClassifyIdle
    /\ LoopIdle!1 /\ LoopIdle!2 /\ LoopIdle!3
    /\ mayCall = [t \in Threads |-> {"b1"}]
    /\ tpc = [t \in Threads |-> "idle"]
    /\ tinst = [t \in Threads |-> NoInstance]
    /\ callbacks = [l \in Loops |-> {}]
    /\ io = [l \in Loops |-> {}]
    /\ running = [l \in Loops |-> IF l = MainLoop THEN MainThread ELSE NoThread]
    /\ stopReq = [l \in Loops |-> FALSE]
    /\ done = [k \in Tasks |-> FALSE]
    /\ ranBy = [k \in Tasks |-> {}]
    /\ asyncCalls = 0

SpecThreads == InitThreads /\ [][NextLoop]_vars

\* ------------------------------------------ the requests of the operations
\* Every operation applied to the caller's objects: what it hands to its
\* _http_* method and what the caller's objects are afterwards.

\* bound: the keyword arguments of one view call
MaxKwargs == 2

DocDesign == Dict([_id |-> "_design/test", views |-> "v"])
DocB == Dict([_id |-> "b", _rev |-> "2-y", msg |-> "m"])
AttSpace == [mimetype |-> "text/plain", name |-> "my att", data |-> "bytes"]

\* keyword arguments of view calls
KwargChoices ==
    {Kwarg("key", Str(<<"abc">>)),
     Kwarg("key", Str(<<"a", " ", "<", "/", "b">>)),
     Kwarg("startkey", List(<<Str(<<"a">>), Num(10)>>)),
     Kwarg("startkey_docid", Str(<<"abc">>)),
     Kwarg("endkey_docid", Str(<<"a", "/", "b">>)),
     Kwarg("limit", Num(10)),
     Kwarg("include_docs", Bool(TRUE)),
     Kwarg("keys", KeysArg),
     Kwarg("keys", List(<<>>))}

\* the keyword arguments of one call: no name twice
KwargLists ==
    {kw \in SeqsUpTo(KwargChoices, MaxKwargs) :
        \A i, j \in 1..Len(kw) : i # j => kw[i].k # kw[j].k}

RequestCalls ==
    Calls
    \cup {[name |-> "save_doc", doc |-> DocDesign]}
    \cup {[name |-> "delete_docs", docs |-> ds, all_or_nothing |-> aon] :
            ds \in SeqsUpTo({DocIdRev, DocDesign, DocWithAtt, DocB}, 2),
            aon \in BOOLEAN}
    \cup {[name |-> "save_attachment", doc |-> d, attachment |-> AttSpace] :
            d \in {DocIdOnly, DocIdRev}}
    \cup ViewCalls(KwargLists, {ViewDoc, EmptyDict})

InitRequest ==
    /\ ClientIdle
    /\ ClassifyIdle
    /\ LoopIdle
    /\ rcall \in RequestCalls
    /\ built = <<>>
    /\ after = <<>>
    /\ closeCalls = 0
    /\ LaterIdle

\* the operation runs up to its _http_* call
BuildRequest ==
    /\ built = <<>>
    /\ built' = <<Facade(rcall)>>
    /\ after' = <<ArgsAfter(rcall)>>
    /\ UNCHANGED <<rcall, clientVars, classifyVars, loopVars, closeCalls,
                   laterVars>>

\* the caller makes its next call
NextCall ==
    /\ built # <<>>
    /\ rcall' \in RequestCalls
    /\ built' = <<>>
    /\ after' = <<>>
    /\ UNCHANGED <<clientVars, classifyVars, loopVars, closeCalls, laterVars>>

NextRequest == BuildRequest \/ NextCall

SpecRequest == InitRequest /\ [][NextRequest]_vars

\* --------------------------------------------- a server, as the tests use it
\* The database the client talks to, with the document semantics that
\* tests.py relies on: a write needs the current revision of a document
\* that exists, every write gives the document a new revision, a deleted
\* document is not listed, an attachment is stored as the bytes received.
\* JSON bodies are kept as the values they encode.
ServerUuids == <<"u1", "u2", "u3", "u4", "u5", "u6", "u7", "u8">>
ClientIds == {"a", "_design/test"}
ServerIds == ClientIds \cup {ServerUuids[i] : i \in 1..Len(ServerUuids)}
\* the ids in the order of the _all_docs listing
ListingOrder == <<"_design/test", "a">> \o ServerUuids
RevStrings == <<"1-x", "2-x", "3-x", "4-x", "5-x", "6-x", "7-x", "8-x">>
AttNames == {"att1", "my att"}
KnownStrings ==
    ServerIds \cup AttNames \cup {RevStrings[i] : i \in 1..Len(RevStrings)}
    \cup {"zz"}

\* the percent-decoding of a path segment
UnescapeFragment(f) ==
    CASE f = "+" -> " "
      [] f = "%22" -> "\""
      [] f = "%2F" -> "/"
      [] f = "%3C" -> "<"
      [] f = "%5C" -> "\\"
      [] f = "%5B" -> "["
      [] f = "%5D" -> "]"
      [] f = "%2C" -> ","
      [] OTHER -> f
url_unescape(text) == [i \in 1..Len(text) |-> UnescapeFragment(text[i])]

\* the string a text spells, "?" for a text that spells none of the model
StrOf(text) ==
    IF \E s \in KnownStrings : TextOf(s) = text
    THEN CHOOSE s \in KnownStrings : TextOf(s) = text
    ELSE "?"

\* the number of a revision string, 0 for a string that is no revision
RevNumber(rev) ==
    IF \E n \in 1..Len(RevStrings) : RevStrings[n] = rev
    THEN CHOOSE n \in 1..Len(RevStrings) : RevStrings[n] = rev
    ELSE 0

\* a document with its `_id` and `_rev` set
Extend(doc, id, rev) ==
    Dict([k \in DOMAIN doc.d \cup {"_id", "_rev"} |->
             IF k = "_id" THEN id ELSE IF k = "_rev" THEN rev ELSE doc.d[k]])

\* what the server keeps for an id; rev = 0: there never was a document
NoDocument == [rev |-> 0, deleted |-> FALSE, doc |-> Null, atts |-> <<>>]
EmptyStore == [id \in ServerIds |-> NoDocument]
Live(entry) == entry.rev > 0 /\ ~entry.deleted

Saved(id, n) == Dict([ok |-> TRUE, id |-> id, rev |-> RevStrings[n]])
Failed(id, error, reason) ==
    Dict([id |-> id, error |-> error, reason |-> reason])

\* the revision a write names is not the one it needs
WrongRev(entry, given) ==
    \/ Live(entry) /\ (given = <<>> \/ RevNumber(given[1]) # entry.rev)
    \/ ~Live(entry) /\ given # <<>>

\* one document written: the store after it, the status and the result
WriteDoc(st, id, doc) ==
    LET cur == st[id]
        given == IF "_rev" \in DOMAIN doc.d THEN <<doc.d._rev>> ELSE <<>>
        n == cur.rev + 1
        del == "_deleted" \in DOMAIN doc.d
    IN IF given # <<>> /\ RevNumber(given[1]) = 0
       THEN [store |-> st, code |-> 400,
             item |-> Failed(id, "bad_request", "Invalid rev format")]
       ELSE IF WrongRev(cur, given)
       THEN [store |-> st, code |-> 409,
             item |-> Failed(id, "conflict", "Document update conflict.")]
       ELSE [store |-> [st EXCEPT ![id] =
                           [rev |-> n, deleted |-> del,
                            doc |-> Extend(doc, id, RevStrings[n]),
                            atts |-> IF del THEN <<>> ELSE cur.atts]],
             code |-> 201, item |-> Saved(id, n)]

\* the id the server gives a document that has none
FreshId(st) ==
    ServerUuids[CHOOSE i \in 1..Len(ServerUuids) :
                    /\ st[ServerUuids[i]].rev = 0
                    /\ \A j \in 1..(i - 1) : st[ServerUuids[j]].rev # 0]

IdFor(st, doc) == IF "_id" \in DOMAIN doc.d THEN doc.d._id ELSE FreshId(st)

\* _bulk_docs: the documents written one after the other
RECURSIVE BulkWrite(_, _)
BulkWrite(st, docs) ==
    IF docs = <<>> THEN [store |-> st, items |-> <<>>]
    ELSE LET w == WriteDoc(st, IdFor(st, Head(docs)), Head(docs))
             rest == BulkWrite(w.store, Tail(docs))
         IN [store |-> rest.store, items |-> <<w.item>> \o rest.items]

\* the rows of _all_docs: the documents that exist, in the listing order
ListingRows(st) ==
    LET ids == SelectSeq(ListingOrder, LAMBDA id : Live(st[id]))
    IN [i \in 1..Len(ids) |->
           Dict([id |-> ids[i], key |-> ids[i],
                 value |-> Dict([rev |-> RevStrings[st[ids[i]].rev]])])]

\* the bytes of an attachment as the body of a response: no bytes, the
\* text of a JSON object, other bytes
JsonBytes == "{\"error\": \"e\", \"reason\": \"r\"}"
BytesBody(data) ==
    CASE data = "" -> [raw |-> "empty"]
      [] data = JsonBytes ->
            [raw |-> "json", val |-> Dict([error |-> "e", reason |-> "r"])]
      [] OTHER -> [raw |-> "bytes", data |-> data]

\* an attachment written: the body and the Content-Type of the request
\* are stored under the name
PutAttachment(st, id, name, given, req) ==
    LET cur == st[id]
        n == cur.rev + 1
        att == [data |-> req.body.data,
                content_type |-> req.headers["Content-Type"]]
    IN IF given # <<>> /\ RevNumber(given[1]) = 0
       THEN [store |-> st, code |-> 400,
             item |-> Failed(id, "bad_request", "Invalid rev format")]
       ELSE IF WrongRev(cur, given)
       THEN [store |-> st, code |-> 409,
             item |-> Failed(id, "conflict", "Document update conflict.")]
       ELSE [store |-> [st EXCEPT ![id] =
                           [rev |-> n, deleted |-> FALSE,
                            doc |-> Extend(IF Live(cur) THEN cur.doc
                                           ELSE EmptyDict, id, RevStrings[n]),
                            atts |-> [k \in DOMAIN cur.atts \cup {name} |->
                                         IF k = name THEN att
                                         ELSE cur.atts[k]]]],
             code |-> 201, item |-> Saved(id, n)]

\* the answer to the write of one document or attachment
WriteAnswer(w) ==
    [store |-> w.store,
     resp |-> [code |-> w.code,
               body |-> [raw |-> "json",
                         val |-> IF w.code = 201 THEN w.item
                                 ELSE Dict([error |-> w.item.d.error,
                                            reason |-> w.item.d.reason])]]]

JsonAnswer(st, code, v) ==
    [store |-> st, resp |-> [code |-> code, body |-> [raw |-> "json", val |-> v]]]

Missing(st) ==
    JsonAnswer(st, 404, Dict([error |-> "not_found", reason |-> "missing"]))

\* the `rev` parameter of the query, <<>> when there is none
QueryRev(req) ==
    LET q == SelectSeq(req.url.query, LAMBDA p : p.name = "rev")
    IN IF q = <<>> THEN <<>> ELSE <<StrOf(q[1].value)>>

\* The server handles a request on the store st: the store after it and
\* the response
ServerHandle(st, req) ==
    LET path == req.url.path
        id == IF Len(path) >= 2 THEN StrOf(url_unescape(path[2])) ELSE "?"
        name == IF Len(path) >= 3 THEN StrOf(url_unescape(path[3])) ELSE "?"
        special == Len(path) >= 2 /\ path[2] \in {<<"_all_docs">>, <<"_bulk_docs">>}
    IN CASE req.method = "post" /\ Len(path) = 1 ->
              WriteAnswer(WriteDoc(st, IdFor(st, req.body.val), req.body.val))
         [] req.method = "post" /\ Len(path) = 2 /\ path[2] = <<"_bulk_docs">> ->
              LET b == BulkWrite(st, req.body.val.d.docs)
              IN JsonAnswer(b.store, 201, List(b.items))
         [] req.method = "get" /\ Len(path) = 2 /\ path[2] = <<"_all_docs">> ->
              JsonAnswer(st, 200,
                         Dict([total_rows |-> Len(ListingRows(st)),
                               offset |-> 0, rows |-> ListingRows(st)]))
         [] req.method = "put" /\ Len(path) = 2 /\ id \in ServerIds ->
              WriteAnswer(WriteDoc(st, id, req.body.val))
         [] req.method = "get" /\ Len(path) = 2 /\ ~special ->
              IF id \in ServerIds /\ Live(st[id])
              THEN JsonAnswer(st, 200, st[id].doc) ELSE Missing(st)
         [] req.method = "put" /\ Len(path) = 3 /\ id \in ServerIds ->
              WriteAnswer(PutAttachment(st, id, name, QueryRev(req), req))
         [] req.method = "get" /\ Len(path) = 3 ->
              IF id \in ServerIds /\ Live(st[id]) /\ name \in DOMAIN st[id].atts
              THEN [store |-> st,
                    resp |-> [code |-> 200,
                              body |-> BytesBody(st[id].atts[name].data)]]
              ELSE Missing(st)
         [] OTHER ->
              JsonAnswer(st, 400, Dict([error |-> "bad_request",
                                        reason |-> "not handled"]))

\* ------------------------------------------- SpecServer: sessions of calls
\* bound: the calls of a session
MaxSteps == 3

DocWithError == Dict([error |-> "e", msg |-> "m"])
DocCurrent == Dict([_id |-> "a", _rev |-> "2-x", msg |-> "m2"])
DocFabricated == Dict([_id |-> "a", _rev |-> "zz", msg |-> "m2"])
DocStale == Dict([_id |-> "a", _rev |-> "1-x", msg |-> "m2"])
ServerDocs == {DocNoId, DocWithError, DocFabricated, DocStale}
BulkArgs == {<<>>, <<DocNoId, DocWithError>>, <<DocIdOnly, DocNoId>>}
AttEmpty == [mimetype |-> "text/plain", name |-> "att1", data |-> ""]
AttJson == [mimetype |-> "application/json", name |-> "my att",
            data |-> JsonBytes]
ServerAtts == {AttEmpty, AttJson}

\* the database when the session starts: empty, or with document "a" at
\* its second revision
StoreWithA ==
    [EmptyStore EXCEPT !["a"] =
        [rev |-> 2, deleted |-> FALSE,
         doc |-> Dict([_id |-> "a", _rev |-> "2-x", msg |-> "m"]),
         atts |-> <<>>]]

\* the steps of the session that returned
ReturnedSteps(s, name) ==
    {i \in 1..Len(s) : s[i].call.name = name /\ s[i].outcome.kind = "return"}

\* the ids that save_doc returned
SavedIds(s) == {s[i].outcome.val.d.id : i \in ReturnedSteps(s, "save_doc")}

\* documents that carry the id and rev of each result of a save_docs
Refs(items) ==
    [i \in 1..Len(items) |->
        Dict([_id |-> items[i].d.id, _rev |-> items[i].d.rev])]
SavedRefs(s) ==
    {Refs(s[i].outcome.val.items) : i \in ReturnedSteps(s, "save_docs")}

\* the attachments that save_attachment stored
SavedAtts(s) ==
    {s[i].call.attachment : i \in ReturnedSteps(s, "save_attachment")}

\* the calls the caller may make next
ServerCalls(s) ==
    {[name |-> "save_doc", doc |-> d] : d \in ServerDocs}
    \cup {[name |-> "get_doc", doc_id |-> i] : i \in {"a"} \cup SavedIds(s)}
    \cup {[name |-> "save_docs", docs |-> ds] : ds \in BulkArgs}
    \cup {[name |-> "delete_docs", docs |-> ds, all_or_nothing |-> FALSE] :
            ds \in SavedRefs(s)}
    \cup {[name |-> "view_all_docs", kwargs |-> <<>>]}
    \cup {[name |-> "save_attachment", doc |-> d, attachment |-> a] :
            d \in {DocIdOnly, DocCurrent}, a \in ServerAtts}
    \cup {[name |-> "get_attachment", doc |-> DocIdOnly,
           attachment_name |-> a.name, mimetype |-> a.mimetype] :
            a \in SavedAtts(s) \cup {AttFull}}

Pending(s) == s # <<>> /\ s[Len(s)].outcome = NoOutcome

\* the HTTPRequest of a call
RequestOf(args, c) ==
    [method |-> Facade(c).via, url |-> Facade(c).url,
     headers |-> RequestHeaders(args, Facade(c)), body |-> Facade(c).body]

\* The caller makes a call: it raises before its _http_* call, or its
\* request goes to the server
ClientCalls(c) ==
    /\ ~Pending(session)
    /\ Len(session) < MaxSteps
    /\ c \in ServerCalls(session)
    /\ session' = Append(session,
            IF Facade(c).kind = "raise"
            THEN [call |-> c, request |-> <<>>, response |-> <<>>,
                  outcome |-> Facade(c)]
            ELSE [call |-> c, request |-> <<RequestOf(request_args, c)>>,
                  response |-> <<>>, outcome |-> NoOutcome])
    /\ UNCHANGED <<store, baseVars, legacyVars>>

\* The server handles the request and the call runs to its end
ServerAnswers ==
    /\ Pending(session)
    /\ LET step == session[Len(session)]
           h == ServerHandle(store, step.request[1])
           plan == Facade(step.call)
       IN /\ store' = h.store
          /\ session' = [session EXCEPT ![Len(session)] =
                [step EXCEPT
                    !.response = <<h.resp>>,
                    !.outcome = PostTransform(step.call.name,
                                    AfterFetch(plan.via,
                                               Decode(request_args, plan),
                                               fetch(h.resp)))]]
    /\ UNCHANGED <<baseVars, legacyVars>>

InitServer ==
    /\ ClassifyIdle
    /\ LoopIdle
    /\ CallerIdle
    /\ blocking \in BOOLEAN
    /\ request_args \in ConfiguredArgs
    /\ closed = FALSE
    /\ clientCloses = 0
    /\ loopCloses = 0
    /\ pc = "idle"
    /\ call = NoCall
    /\ request = <<>>
    /\ decode = TRUE
    /\ fetches = 0
    /\ response = <<>>
    /\ outcome = NoOutcome
    /\ store \in {EmptyStore, StoreWithA}
    /\ session = <<>>
    /\ LegacyIdle
    /\ ConfigIdle

NextServer == (\E c \in ServerCalls(session) : ClientCalls(c)) \/ ServerAnswers

SpecServer == InitServer /\ [][NextServer]_vars

\* ------------------------------- the callback-based module, src/couch.py
\* CouchException.__init__(self, HTTPError, msg=None) of src/couch.py:
\* body = json_decode(HTTPError.response.body), then the message is
\* msg or body.get('reason'). Returned(exception), or Raised(error) when
\* the constructor itself raises.
Legacy_CouchExceptionInit(cls, e, msg) ==
    IF e.response = <<>>
    THEN Raised(PyError("AttributeError",
                        "'NoneType' object has no attribute 'body'"))
    ELSE LET dec == json_decode(e.response[1].body)
         IN IF dec.kind = "raise" THEN dec
            ELSE IF ~Falsy(msg)
            THEN Returned(HTTPErrorInit(cls, e.code, msg, e.response))
            ELSE IF dec.val.t # "dict"
            THEN Raised(PyError("AttributeError", "no attribute 'get'"))
            ELSE Returned(HTTPErrorInit(cls, e.code,
                            IF "reason" \in DOMAIN dec.val.d
                            THEN dec.val.d.reason ELSE NoneMsg,
                            e.response))

\* relax_exception(e) of src/couch.py, called without a callback
Legacy_relax_exception(e) ==
    IF IsHTTPError(e)
    THEN CASE e.code = 304 ->
                Legacy_CouchExceptionInit("NotModified", e,
                    "The document has not been modified since the last update.")
           [] e.code = 400 ->
                Legacy_CouchExceptionInit("BadRequest", e,
                    "The syntax of the request was invalid or could not be processed.")
           [] e.code = 404 ->
                Legacy_CouchExceptionInit("NotFound", e,
                    "The requested resource was not found.")
           [] e.code = 405 ->
                Legacy_CouchExceptionInit("MethodNotAllowed", e,
                    "The request was made using an incorrect request method; for example, a GET was used where a POST was required.")
           [] e.code = 409 ->
                Legacy_CouchExceptionInit("Conflict", e,
                    "The request failed because of a database conflict.")
           [] e.code = 412 ->
                Legacy_CouchExceptionInit("PreconditionFailed", e,
                    "Could not create database - a database with that name already exists.")
           [] e.code = 500 ->
                Legacy_CouchExceptionInit("InternalServerError", e,
                    "The request was invalid and failed, or an error occurred within the CouchDB server that prevented it from processing the request.")
           [] OTHER -> Legacy_CouchExceptionInit("CouchException", e, NoneMsg)
    ELSE Returned(e)

\* the evaluation of relax_exception(e) as the argument of a raise or of a
\* callback: Found(ce) when it gave the exception ce, Raised(error) when
\* it raised
Found(ce) == [kind |-> "error", exc |-> ce]
Relaxed(e) ==
    LET r == Legacy_relax_exception(e)
    IN IF r.kind = "raise" THEN r ELSE Found(r.val)

\* resp.code if item['error'] != 'not_found' else 404
Legacy_ItemCode(error, resp) == IF error = "not_found" THEN 404 ELSE resp.code

\* _parse_response of both classes of src/couch.py, up to what it does
\* with its result: Returned(obj), Found(ce) for an error it found in the
\* body, Raised(error) for an error of its own statements
Legacy_ParseDecoded(obj, resp) ==
    IF obj.t = "list"
    THEN LET i == FirstHit(obj.items)
             st == ReadStatus(obj.items[i], <<"error", "reason">>)
         IN IF i = 0 THEN Returned(obj)
            ELSE IF st # "ok" THEN Raised(PyError(st, "item"))
            ELSE Relaxed(HTTPError(
                    Legacy_ItemCode(obj.items[i].d.error, resp),
                    obj.items[i].d.reason, <<resp>>))
    ELSE IF Contains(obj, "error") = "TypeError"
    THEN Raised(PyError("TypeError", "argument is not iterable"))
    ELSE IF Contains(obj, "error") = "yes"
    THEN IF ReadStatus(obj, <<"reason">>) # "ok"
         THEN Raised(PyError(ReadStatus(obj, <<"reason">>), "reason"))
         ELSE Relaxed(HTTPError(resp.code, obj.d.reason, <<resp>>))
    ELSE IF Contains(obj, "rows") = "yes"
    THEN LET i == FirstHit(obj.d.rows)
             st == ReadStatus(obj.d.rows[i], <<"error">>)
         IN IF i = 0 THEN Returned(obj)
            ELSE IF st # "ok" THEN Raised(PyError(st, "row"))
            ELSE Relaxed(HTTPError(
                    Legacy_ItemCode(obj.d.rows[i].d.error, resp),
                    obj.d.rows[i].d.error, <<resp>>))
    ELSE Returned(obj)

Legacy_parse_response(resp) ==
    LET dec == json_decode(resp.body)
    IN IF dec.kind = "raise" THEN dec ELSE Legacy_ParseDecoded(dec.val, resp)

\* BlockingCouch._fetch, for the result f of HTTPClient.fetch
Legacy_fetch(dec, f) ==
    IF f.kind = "raise"
    THEN IF IsHTTPError(f.exc)
         THEN LET r == Relaxed(f.exc) IN Raised(r.exc)
         ELSE f
    ELSE IF ~dec THEN Returned(Raw(f.val.body))
    ELSE LET p == Legacy_parse_response(f.val)
         IN IF p.kind = "return" THEN p ELSE Raised(p.exc)

\* `not resp.body`
NoBody(body) == body.raw = "empty"

\* AsyncCouch._http_callback, for the same result f: the values it passes
\* to the callback, in order. An error raised inside it goes to the
\* IOLoop and the callback is not called.
Legacy_http_callback(dec, f) ==
    IF f.kind = "raise" /\ ~IsHTTPError(f.exc)
    THEN <<f.exc>>
    ELSE IF f.kind = "raise"
            /\ (f.exc.response = <<>> \/ NoBody(f.exc.response[1].body))
    THEN LET r == Relaxed(f.exc)
         IN IF r.kind = "error" THEN <<r.exc>> ELSE <<>>
    ELSE LET resp == IF f.kind = "raise" THEN f.exc.response[1] ELSE f.val
             p == Legacy_parse_response(resp)
         IN IF ~dec THEN <<Raw(resp.body)>>
            ELSE IF p.kind = "return" THEN <<p.val>>
            ELSE IF p.kind = "error" THEN <<p.exc>>
            ELSE <<>>

\* __init__ of both classes: request_args.update({'use_gzip': False})
Legacy_init(given) ==
    [k \in DOMAIN given \cup {"use_gzip"} |->
        IF k = "use_gzip" THEN FALSE ELSE given[k]]

\* the keyword arguments a caller constructs the client with
GivenArgs ==
    {[headers |-> NoHeaders]}
    \cup {[headers |-> NoHeaders, use_gzip |-> g] : g \in BOOLEAN}

\* HTTPRequest(self.couch_url + uri, method=..., **req_args)
Legacy_Request(args, plan) ==
    [method |-> plan.via, url |-> plan.url,
     headers |-> RequestHeaders(args, plan), body |-> plan.body,
     use_gzip |-> args.use_gzip]

\* save_doc of both classes: PUT for a document with `_id` and `_rev`
Legacy_save_doc(c) ==
    IF {"_id", "_rev"} \subseteq DOMAIN c.doc.d
    THEN Plan("put", Url(DocPath(c.doc), <<>>), json_encode(c.doc), NoHeaders)
    ELSE Plan("post", Url(<<db_name>>, <<>>), json_encode(c.doc), NoHeaders)

NoRevError == PyError("KeyError", "Missing id or revision")

\* the operations of BlockingCouch up to their _http_* call
Legacy_Blocking(c) ==
    CASE c.name = "get_doc" ->
            Plan("get", Url(<<db_name, url_escape(DocIdArg(c))>>, <<>>),
                 EmptyBody, NoHeaders)
      [] c.name = "uuids" ->
            Plan("get", Url(<<<<"_uuids">>>>, <<Param("count", Decimal(1))>>),
                 EmptyBody, NoHeaders)
      [] c.name = "save_doc" -> Legacy_save_doc(c)
      [] c.name = "delete_doc" ->
            IF LacksIdOrRev(c.doc) THEN Raised(NoRevError)
            ELSE Plan("delete", Url(DocPath(c.doc), RevParam(c.doc)),
                      EmptyBody, NoHeaders)
      [] c.name = "delete_docs" -> delete_docs(c)
      [] c.name = "get_attachment" -> get_attachment(c)
      [] c.name = "save_attachment" -> save_attachment(c)
      [] c.name = "delete_attachment" ->
            IF LacksIdOrRev(c.doc) THEN Raised(NoRevError)
            ELSE Plan("delete",
                      Url(DocPath(c.doc) \o <<url_escape(TextOf("att1"))>>,
                          RevParam(c.doc)),
                      EmptyBody, NoHeaders)

\* what an operation of AsyncCouch does before it returns to its caller:
\* the values it passes to the callback, the error it raises, and the
\* _http_* call it makes
Began(told, raised, plan) ==
    [cbs |-> told, raised |-> raised, plan |-> plan]

\* AsyncCouch.get_attachment: the callback is called for each failed test,
\* and the statements after the tests run in any case
Legacy_async_get_attachment(c) ==
    LET noId == "_id" \notin DOMAIN c.doc.d
        noAtts == c.mimetype = NoMime /\ "_attachments" \notin DOMAIN c.doc.d
        noName == /\ c.mimetype = NoMime /\ ~noAtts
                  /\ c.attachment_name \notin DOMAIN c.doc.d._attachments
        mimetype ==
            IF c.mimetype = NoMime /\ ~noAtts /\ ~noName
            THEN c.doc.d._attachments[c.attachment_name].content_type
            ELSE c.mimetype
        told == (IF noId
                THEN <<PyError("ValueError", "Missing key named _id in doc")>>
                ELSE <<>>)
               \o (IF noAtts
                   THEN <<PyError("ValueError", "No attachments in doc")>>
                   ELSE IF noName
                   THEN <<PyError("ValueError",
                                  "No attachment by the given name")>>
                   ELSE <<>>)
    IN IF noId THEN Began(told, <<PyError("KeyError", "_id")>>, <<>>)
       ELSE Began(told, <<>>,
                  <<Plan("get",
                         Url(DocPath(c.doc)
                               \o <<url_escape(TextOf(c.attachment_name))>>,
                             <<>>),
                         EmptyBody,
                         [NoHeaders EXCEPT !["Accept"] = mimetype])>>)

\* the operations of AsyncCouch up to their return to the caller
Legacy_Async(c) ==
    CASE c.name \in {"get_doc", "uuids", "save_doc"} ->
            Began(<<>>, <<>>, <<Legacy_Blocking(c)>>)
      [] c.name \in {"delete_doc", "delete_docs"} ->
            IF Legacy_Blocking(c).kind = "raise"
            THEN Began(<<NoRevError>>, <<>>, <<>>)
            ELSE Began(<<>>, <<>>, <<Legacy_Blocking(c)>>)
      [] c.name = "get_attachment" -> Legacy_async_get_attachment(c)
      [] c.name = "save_attachment" ->
            IF \E k \in {"mimetype", "name", "data"} :
                    k \notin DOMAIN c.attachment
            THEN Began(<<PyError("KeyError",
                                 "Attachment dict is missing keys")>>,
                       <<>>, <<>>)
            ELSE IF "_id" \notin DOMAIN c.doc.d
            THEN Began(<<>>, <<PyError("KeyError", "_id")>>, <<>>)
            ELSE Began(<<>>, <<>>, <<save_attachment(c)>>)
      [] c.name = "delete_attachment" ->
            IF LacksIdOrRev(c.doc)
            THEN Began(<<NoRevError>>,
                       <<PyError("UnboundLocalError", "url")>>, <<>>)
            ELSE Began(<<>>, <<>>, <<Legacy_Blocking(c)>>)

\* what the operation does with the result r of its _http_* call:
\* uuids returns r['uuids']
Legacy_PostBlocking(name, r) ==
    IF name = "uuids" /\ r.kind = "return"
    THEN IF GetItemStatus(r.val, "uuids") = "ok"
         THEN Returned(List(r.val.d.uuids))
         ELSE Raised(PyError(GetItemStatus(r.val, "uuids"), "uuids"))
    ELSE r

\* the callback that AsyncCouch.uuids wraps around the caller's one
Legacy_PostAsync(name, values) ==
    IF name = "uuids" /\ values # <<>> /\ "t" \in DOMAIN values[1]
    THEN IF GetItemStatus(values[1], "uuids") = "ok"
         THEN <<List(values[1].d.uuids)>>
         ELSE <<>>
    ELSE values

\* -------------------------- SpecLegacy: the two classes of src/couch.py
\* The same call is made on a BlockingCouch and on an AsyncCouch that were
\* constructed with the same arguments, and both get the same answer.
LegacyCalls ==
    {[name |-> n] : n \in {"get_doc", "uuids"}}
    \cup {[name |-> n, doc |-> d] :
            n \in {"save_doc", "delete_doc", "delete_attachment"},
            d \in DocArgs}
    \cup {[name |-> "delete_docs", docs |-> ds, all_or_nothing |-> FALSE] :
            ds \in {<<DocIdRev>>, <<DocIdRev, DocIdOnly>>}}
    \cup {[name |-> "get_attachment", doc |-> d, attachment_name |-> "att1",
           mimetype |-> m] :
            d \in {DocNoId, DocIdRev, DocWithAtt},
            m \in {NoMime, "text/plain"}}
    \cup {[name |-> "save_attachment", doc |-> DocIdRev, attachment |-> a] :
            a \in {AttFull, AttNoData}}

LegacyCodes == {200, 304, 404, 409, 500}
LegacyBodies ==
    {[raw |-> "empty"], [raw |-> "bytes"]}
    \cup {[raw |-> "json", val |-> v] :
            v \in {Dict([ok |-> TRUE, id |-> "a", rev |-> "1-x"]),
                   Dict([uuids |-> <<Str(<<"u1">>)>>]),
                   Dict([error |-> "not_found", reason |-> "missing"]),
                   Dict([error |-> "conflict"]),
                   List(<<Dict([id |-> "a", error |-> "not_found",
                                reason |-> "missing"])>>),
                   Dict([rows |-> <<Dict([key |-> "b",
                                          error |-> "not_found"])>>]),
                   Null}}
LegacyResponses == [code : LegacyCodes, body : LegacyBodies]

\* the HTTPRequest with the `decode` that goes with it
Legacy_http(args, plan) ==
    [req |-> Legacy_Request(args, plan),
     decode |-> plan.via # "get" \/ Decode(args, plan)]

\* The call c on both clients, up to the point where it waits for the
\* transport or is over
LegacyCall(c) ==
    /\ lpc = "idle"
    /\ lcall' = c
    /\ cbs' = Legacy_Async(c).cbs
    /\ araised' = Legacy_Async(c).raised
    /\ areq' = IF Legacy_Async(c).plan = <<>> THEN <<>>
               ELSE <<Legacy_http(legacy_args, Legacy_Async(c).plan[1])>>
    /\ breq' = IF Legacy_Blocking(c).kind = "raise" THEN <<>>
               ELSE <<Legacy_http(legacy_args, Legacy_Blocking(c))>>
    /\ bout' = IF Legacy_Blocking(c).kind = "raise" THEN Legacy_Blocking(c)
               ELSE NoOutcome
    /\ lpc' = IF Legacy_Async(c).plan = <<>>
                 /\ Legacy_Blocking(c).kind = "raise"
              THEN "done" ELSE "waiting"
    /\ UNCHANGED <<ctor_args, legacy_args, baseVars, serverVars>>

\* fetch ends with f on the clients that made a request
LegacyFetched(f) ==
    /\ lpc = "waiting"
    /\ lpc' = "done"
    /\ cbs' = IF areq = <<>> THEN cbs
              ELSE cbs \o Legacy_PostAsync(lcall.name,
                              Legacy_http_callback(areq[1].decode, f))
    /\ bout' = IF breq = <<>> THEN bout
               ELSE Legacy_PostBlocking(lcall.name,
                        Legacy_fetch(breq[1].decode, f))
    /\ UNCHANGED <<ctor_args, legacy_args, lcall, areq, breq, araised>>
    /\ UNCHANGED <<baseVars, serverVars>>

LegacyResponds(resp) == LegacyFetched(fetch(resp))
LegacyFails(e) == LegacyFetched(Raised(e))

\* the caller goes on to its next call
LegacyReturn ==
    /\ lpc = "done"
    /\ lpc' = "idle"
    /\ lcall' = NoCall
    /\ areq' = <<>> /\ breq' = <<>> /\ cbs' = <<>> /\ araised' = <<>>
    /\ bout' = NoOutcome
    /\ UNCHANGED <<ctor_args, legacy_args, baseVars, serverVars>>

InitLegacy ==
    /\ ClientIdle /\ ClassifyIdle /\ LoopIdle /\ CallerIdle /\ ServerIdle
    /\ ConfigIdle
    /\ ctor_args \in GivenArgs
    /\ legacy_args = Legacy_init(ctor_args)
    /\ lpc = "idle" /\ lcall = NoCall
    /\ areq = <<>> /\ breq = <<>> /\ cbs = <<>> /\ araised = <<>>
    /\ bout = NoOutcome

NextLegacy ==
    \/ \E c \in LegacyCalls : LegacyCall(c)
    \/ \E resp \in LegacyResponses : LegacyResponds(resp)
    \/ \E e \in TransportFailures : LegacyFails(e)
    \/ LegacyReturn

SpecLegacy == InitLegacy /\ [][NextLegacy]_vars

\* ---------------------------------------------- the client's configuration
\* self.db_name, self.couch_url and self.request_args of one AsyncCouch,
\* over the calls of use() and of operations that overlap each other.

\* bound: the calls (of use() and of operations) made on the client
MaxConfigCalls == 2

\* str.endswith and str.startswith for one character
endswith(text, ch) == text # <<>> /\ text[Len(text)] = ch
startswith(text, ch) == text # <<>> /\ text[1] = ch

\* the default of the parameter couch_url: 'http://127.0.0.1:5984/'
DefaultUrl == <<"http", ":", "/", "/", "127.0.0.1", ":", "5984", "/">>
UrlNoSlash == <<"http", ":", "/", "/", "example.org", ":", "5984">>
UrlSlash == UrlNoSlash \o <<"/">>
GivenUrls == {UrlNoSlash, UrlSlash, <<>>}

\* the database names given: '' is the default of the parameter db_name
NoName == <<>>
OtherDb == <<"otherdb">>
SlashDb == <<"/", "x">>
GivenNames == {NoName, db_name, SlashDb}

\* a use() that keeps the couch_url as it was given
use_url_as_given(db, url) == [db_name |-> db, couch_url |-> url]

\* use(db_name, couch_url): the two attributes it sets
use(db, url) ==
    [db_name |-> db,
     couch_url |-> IF endswith(url, "/") THEN url ELSE url \o <<"/">>]

\* the arguments of a call of use() or of __init__: a parameter that is
\* not given has its default
UseArgs(db, url, url_given) ==
    [db_name |-> db, couch_url |-> IF url_given THEN url ELSE DefaultUrl,
     url_given |-> url_given]

\* copy.copy(self.request_args): a new dict that holds the same headers dict
shallow_copy(args) == [val |-> args, same_dict |-> FALSE, same_headers |-> TRUE]

\* copy.deepcopy(self.request_args): a new dict, and a new headers dict in it
deepcopy(args) == [val |-> args, same_dict |-> FALSE, same_headers |-> FALSE]

\* the request_args given to __init__: nothing, or credentials and a timeout
ConfigArgs ==
    {[headers |-> NoHeaders, request_timeout |-> Absent],
     [headers |-> [NoHeaders EXCEPT !["Authorization"] = "Basic dTpw"],
      request_timeout |-> "20.0"]}

\* **kwargs of _http_post: pull_db passes request_timeout=120.0
PostKwargs(c) == IF c.name = "pull_db" THEN "120.0" ELSE Absent

\* an _http_* method up to its HTTPRequest(...): the req_args it passes,
\* and self.request_args once the statements have updated req_args
_http_req_args(args, c) ==
    LET cp == deepcopy(args)
        plan == Facade(c)
        req_args ==
            [headers |-> RequestHeaders(cp.val, plan),
             request_timeout |->
                IF plan.via = "post" /\ PostKwargs(c) # Absent
                THEN PostKwargs(c) ELSE cp.val.request_timeout]
    IN [req_args |-> req_args,
        self_args |->
            [headers |-> IF cp.same_headers THEN req_args.headers
                         ELSE args.headers,
             request_timeout |-> IF cp.same_dict THEN req_args.request_timeout
                                 ELSE args.request_timeout]]

\* the operations with a parameter db_name=None
DbOps == {"create_db", "delete_db", "info_db", "pull_db"}

\* `db_name or self.db_name`
DbArg(self_db, c) ==
    IF "db_name" \in DOMAIN c /\ c.db_name # NoName THEN c.db_name
    ELSE self_db

\* the name an operation formats into its uri: self.db_name, or the
\* `db_name or self.db_name` of create_db, delete_db and info_db
NameUsed(self_db, c) == IF c.name \in DbOps THEN DbArg(self_db, c) ELSE self_db

\* the uri an operation passes to its _http_* method, as text: the
\* segments of '{0}/{1}'.format(self.db_name, ...), the query left out
UriText(self_db, c) ==
    LET path == Facade(c).url.path
    IN Join([i \in 1..Len(path) |->
                IF i = 1 /\ path[i] = db_name THEN NameUsed(self_db, c)
                ELSE path[i]], <<"/">>)

\* the operation uses a database name in its uri
UsesName(c) == Facade(c).url.path[1] = db_name

ConfigCalls ==
    {[name |-> n] : n \in {"create_db", "list_dbs", "pull_db", "get_doc"}}
    \cup {[name |-> n, db_name |-> OtherDb] : n \in {"info_db", "pull_db"}}
    \cup {[name |-> "get_attachment", doc |-> DocIdRev,
           attachment_name |-> "att1", mimetype |-> "text/plain"],
          [name |-> "save_attachment", doc |-> DocIdRev,
           attachment |-> AttFull]}

\* the calls made so far
ConfigCallsMade == configured.uses + Len(requests)

\* __init__(db_name, couch_url, **request_args)
InitConfig ==
    /\ ClientIdle /\ ClassifyIdle /\ LoopIdle /\ CallerIdle /\ ServerIdle
    /\ LegacyIdle
    /\ \E db \in GivenNames, url \in GivenUrls, url_given \in BOOLEAN,
          args \in ConfigArgs :
            /\ configured = [ctor |-> UseArgs(db, url, url_given),
                             request_args |-> args,
                             used |-> UseArgs(db, url, url_given), uses |-> 0]
            /\ client = [db_name |-> use(db, configured.ctor.couch_url).db_name,
                         couch_url |->
                            use(db, configured.ctor.couch_url).couch_url,
                         request_args |-> args]
    /\ requests = <<>>

\* use(db_name) or use(db_name, couch_url)
ConfigUse(db, url, url_given) ==
    /\ ConfigCallsMade < MaxConfigCalls
    /\ configured' = [configured EXCEPT !.used = UseArgs(db, url, url_given),
                                        !.uses = @ + 1]
    /\ client' = [client EXCEPT
                    !.db_name = use(db, configured'.used.couch_url).db_name,
                    !.couch_url = use(db, configured'.used.couch_url).couch_url]
    /\ UNCHANGED <<requests, clientVars, classifyVars, loopVars, requestVars,
                   closeCalls, serverVars, legacyVars>>

\* an operation runs up to the `yield self._client.fetch(req)` of its
\* _http_* method
ConfigCall(c) ==
    /\ ConfigCallsMade < MaxConfigCalls
    /\ requests' = Append(requests,
            [call |-> c, couch_url |-> client.couch_url,
             uri |-> UriText(client.db_name, c),
             name_used |-> NameUsed(client.db_name, c),
             req_args |-> _http_req_args(client.request_args, c).req_args,
             answered |-> FALSE])
    /\ client' = [client EXCEPT !.request_args =
                        _http_req_args(client.request_args, c).self_args]
    /\ UNCHANGED <<configured, clientVars, classifyVars, loopVars, requestVars,
                   closeCalls, serverVars, legacyVars>>

\* the fetch of one of the requests ends, and its operation with it
ConfigAnswer(i) ==
    /\ ~requests[i].answered
    /\ requests' = [requests EXCEPT ![i].answered = TRUE]
    /\ UNCHANGED <<client, configured, clientVars, classifyVars, loopVars,
                   requestVars, closeCalls, serverVars, legacyVars>>

NextConfig ==
    \/ \E db \in GivenNames \cup {OtherDb}, url \in GivenUrls,
          url_given \in BOOLEAN : ConfigUse(db, url, url_given)
    \/ \E c \in ConfigCalls : ConfigCall(c)
    \/ \E i \in 1..Len(requests) : ConfigAnswer(i)

SpecConfig == InitConfig /\ [][NextConfig]_vars

\* ------------------------------------------------------------ properties
\* The call in progress has ended and the server had answered it
Answered == pc = "done" /\ response # <<>>

\* ... and its _http_* method handed the answer to _parse_response, which
\* could decode it
Parsed ==
    /\ Answered
    /\ request[1].method \in {"post", "put", "delete"}
         \/ (request[1].method = "get" /\ decode)
    /\ response[1].body.raw = "json"

\* the positions of the dicts with an `error` key in a list of values
ErrIdx(items) ==
    {i \in 1..Len(items) :
        items[i].t = "dict" /\ "error" \in DOMAIN items[i].d}

\* the first of them
FirstErr(items) ==
    items[CHOOSE i \in ErrIdx(items) : \A j \in ErrIdx(items) : i <= j]

\* the exception kind and the status an error string stands for
ClassFor(e) ==
    CASE e = "not_found" -> "NotFound"
      [] e = "conflict"  -> "Conflict"
      [] OTHER           -> "BadRequest"
CodeFor(e) ==
    CASE e = "not_found" -> 404
      [] e = "conflict"  -> 409
      [] OTHER           -> 400

ClassifiedAs(o, e) ==
    /\ o.kind = "raise"
    /\ o.exc.cls = ClassFor(e)
    /\ o.exc.code = CodeFor(e)

\* the decoded body is an object without a top-level `error` that has rows
HasRows(obj) ==
    obj.t = "dict" /\ "error" \notin DOMAIN obj.d /\ "rows" \in DOMAIN obj.d

\* C1: whatever the status of the response, the first error found in an
\* element of a decoded list or in a row of `rows` is never returned as a
\* result, and the exception kind and code it is classified as are those of
\* its error string: not_found 404 NotFound, conflict 409 Conflict, any
\* other string 400 BadRequest.  An error in a row is always classified, so
\* a 200 answer whose rows hold a not_found row raises NotFound; an error
\* in a list element is classified whenever the element has its reason.
C1_ErrorStringDecidesKind ==
    Parsed =>
        LET obj == response[1].body.val
        IN /\ (obj.t = "list" /\ ErrIdx(obj.items) # {}) =>
                /\ outcome.kind = "raise"
                /\ outcome.exc.cls \in CouchClasses =>
                      ClassifiedAs(outcome, FirstErr(obj.items).d.error)
                /\ (/\ \A i \in 1..Len(obj.items) : obj.items[i].t = "dict"
                    /\ "reason" \in DOMAIN FirstErr(obj.items).d) =>
                      outcome.exc.cls \in CouchClasses
           /\ (HasRows(obj) /\ ErrIdx(obj.d.rows) # {}) =>
                ClassifiedAs(outcome, FirstErr(obj.d.rows).d.error)

\* C1 witness: a 200 answer with a not_found row has raised NotFound
C1_Witness ==
    /\ Parsed
    /\ response[1].code = 200
    /\ HasRows(response[1].body.val)
    /\ Len(response[1].body.val.d.rows) = 2
    /\ response[1].body.val.d.rows[2] = Dict([key |-> "b", error |-> "not_found"])
    /\ outcome.kind = "raise"
    /\ outcome.exc.cls = "NotFound"

\* a well-formed error answer of CouchDB: an error status and a JSON object
\* with `error` and `reason`
ErrorAnswer(resp) ==
    /\ resp.code >= 400
    /\ resp.body.raw = "json"
    /\ resp.body.val.t = "dict"
    /\ {"error", "reason"} \subseteq DOMAIN resp.body.val.d

\* C2: for every operation (has_doc, which reports the status as a boolean,
\* aside), an answer with an HTTP error status and a CouchDB error body
\* reaches the caller as a CouchException of the taxonomy and is never
\* returned as a value.
C2_ErrorStatusRaises ==
    (Answered /\ ErrorAnswer(response[1]) /\ call.name # "has_doc") =>
        /\ outcome.kind = "raise"
        /\ outcome.exc.cls \in CouchClasses

\* C4: get_docs is all or nothing.  When a row of the answer carries the
\* not_found error of a missing id the call raises NotFound; when no row
\* carries an error it returns the embedded doc of every row, in row order.
C4_GetDocsAllOrNothing ==
    (Parsed /\ call.name = "get_docs" /\ HasRows(response[1].body.val)) =>
        LET rows == response[1].body.val.d.rows
        IN /\ (/\ ErrIdx(rows) # {}
               /\ \A i \in ErrIdx(rows) : rows[i].d.error = "not_found") =>
                  /\ outcome.kind = "raise"
                  /\ outcome.exc.cls = "NotFound"
           /\ ErrIdx(rows) = {} =>
                  /\ outcome.kind = "return"
                  /\ outcome.val.t = "list"
                  /\ Len(outcome.val.items) = Len(rows)
                  /\ \A i \in 1..Len(rows) :
                        outcome.val.items[i] = rows[i].d.doc

\* C4 witness: one id found, one missing, and NotFound raised
C4_WitnessMissing ==
    /\ Parsed
    /\ call.name = "get_docs"
    /\ HasRows(response[1].body.val)
    /\ Len(response[1].body.val.d.rows) = 2
    /\ ErrIdx(response[1].body.val.d.rows) = {2}
    /\ outcome.kind = "raise"
    /\ outcome.exc.cls = "NotFound"

\* no error at any of the three levels of a decoded list or object
NoErrorAnywhere(obj) ==
    /\ obj.t \in {"list", "dict"}
    /\ obj.t = "list" => ErrIdx(obj.items) = {}
    /\ obj.t = "dict" =>
          /\ "error" \notin DOMAIN obj.d
          /\ "rows" \in DOMAIN obj.d => ErrIdx(obj.d.rows) = {}

\* the operations that return what their _http_* method returns
ReturnsResult(name) == name \notin {"uuids", "has_doc", "get_docs"}

\* C5: a decoded list or object without an error at any level is returned
\* unchanged and nothing is raised, also a list of plain strings.
C5_NoErrorReturnsUnchanged ==
    (Parsed /\ NoErrorAnywhere(response[1].body.val)
        /\ ReturnsResult(call.name)) =>
        outcome = Returned(response[1].body.val)

\* C6: once the server has answered, whatever a call raises is a member of
\* the CouchException taxonomy.
C6_NoUnclassifiedError ==
    (Answered /\ outcome.kind = "raise") => outcome.exc.cls \in CouchClasses

\* C8: a call made after close() that gets as far as its _http_* method
\* fails with a CouchException and issues no fetch.
C8_ClosedCallsFail ==
    (pc = "done" /\ closed /\ Facade(call).kind = "http") =>
        /\ outcome.kind = "raise"
        /\ outcome.exc.cls = "CouchException"
        /\ fetches = 0

\* the exception kind of each status
KindOfStatus(code) ==
    CASE code = 304 -> "NotModified"
      [] code = 400 -> "BadRequest"
      [] code = 404 -> "NotFound"
      [] code = 405 -> "MethodNotAllowed"
      [] code = 409 -> "Conflict"
      [] code = 412 -> "PreconditionFailed"
      [] code = 500 -> "InternalServerError"
      [] OTHER      -> "CouchException"

\* C3: relax_exception maps the status of an HTTPError to one exception
\* kind (304, 400, 404, 405, 409, 412, 500 to their own kinds, any other
\* status to CouchException), the exception made has the status of the
\* input, and an exception that is no HTTPError comes back unchanged.
C3_TotalMapping ==
    relaxed # <<>> =>
        IF IsHTTPError(err)
        THEN /\ relaxed[1].cls = KindOfStatus(err.code)
             /\ relaxed[1].cls \in CouchClasses
             /\ relaxed[1].code = err.code
        ELSE relaxed[1] = err

\* C3 witness: a 405 has become MethodNotAllowed
C3_Witness ==
    /\ relaxed # <<>>
    /\ err.cls = "HTTPError"
    /\ err.code = 405
    /\ relaxed[1].cls = "MethodNotAllowed"
    /\ relaxed[1].code = 405

\* the fixed description of each specific kind
Description(cls) ==
    CASE cls = "NotModified" ->
            "The document has not been modified since the last update."
      [] cls = "BadRequest" ->
            "The syntax of the request was invalid or could not be processed."
      [] cls = "NotFound" -> "The requested resource was not found."
      [] cls = "MethodNotAllowed" ->
            "The request was made using an incorrect request method; for example, a GET was used where a POST was required."
      [] cls = "Conflict" ->
            "The request failed because of a database conflict."
      [] cls = "PreconditionFailed" ->
            "Could not create database - a database with that name already exists."
      [] cls = "InternalServerError" ->
            "The request was invalid and failed, or an error occurred within the CouchDB server that prevented it from processing the request."

\* C7: the generic CouchException carries the status and the reason string
\* of the HTTPError verbatim; a specific kind carries its fixed description
\* and the response of the server, with the original reason in it, stays
\* on the exception.
C7_ReasonKept ==
    (relaxed # <<>> /\ IsHTTPError(err)) =>
        IF relaxed[1].cls = "CouchException"
        THEN /\ relaxed[1].code = err.code
             /\ relaxed[1].message = err.message
        ELSE /\ relaxed[1].message = Description(relaxed[1].cls)
             /\ relaxed[1].response = err.response

\* a BlockingCouch that was constructed
Constructed(b) == io_loop[b] # NoLoop

\* the thread whose calls run a task: the main thread for the operations of
\* the AsyncCouch, the calling thread for a blocking call
CallerOf(k) == IF k = AsyncTask THEN MainThread ELSE k

\* C9: each BlockingCouch owns an IOLoop that no other client uses and that
\* is not the current loop; a blocking call returns only when its task is
\* done with nothing of it left on the loop, and while it runs its loop
\* holds no work but its own, each task being run by its own caller only.
C9_PrivateLoopDrivenToCompletion ==
    /\ current = MainLoop
    /\ \A b \in Instances : Constructed(b) =>
          /\ io_loop[b] # current
          /\ AsyncTask \notin OnLoop(io_loop[b])
          /\ \A b2 \in Instances \ {b} : io_loop[b2] # io_loop[b]
    /\ \A t \in Threads :
          /\ tpc[t] \in {"returned", "raised"} =>
                /\ done[t]
                /\ ranBy[t] = {t}
                /\ \A l \in Loops : t \notin OnLoop(l)
          /\ tpc[t] \in {"added", "looping"} => OnLoop(LoopOf(t)) \subseteq {t}
    /\ \A k \in Tasks : ranBy[k] \subseteq {CallerOf(k)}

\* a call on b1 has returned while a call on b2 waits for its fetch and an
\* operation of the AsyncCouch is queued on the main loop
C9_Witness ==
    /\ tpc["t1"] = "returned"
    /\ tpc["t2"] = "looping"
    /\ "t2" \in io[LoopOf("t2")]
    /\ AsyncTask \in OnLoop(MainLoop)

\* C10: whatever the callers of one BlockingCouch do, the private IOLoop of
\* the instance holds the work of at most one blocking call at a time.
C10_OneCallAtATime ==
    \A b \in Instances : Constructed(b) =>
        Cardinality(OnLoop(io_loop[b]) \cap Threads) <= 1

\* the calls that the operations refuse on their arguments
RejectedLocally(c) ==
    \/ /\ c.name \in {"delete_doc", "delete_attachment"}
       /\ {"_id", "_rev"} \ DOMAIN c.doc.d # {}
    \/ /\ c.name = "delete_docs"
       /\ \E i \in 1..Len(c.docs) : {"_id", "_rev"} \ DOMAIN c.docs[i].d # {}
    \/ /\ c.name = "save_attachment"
       /\ {"mimetype", "name", "data"} \ DOMAIN c.attachment # {}
    \/ /\ c.name = "get_attachment"
       /\ \/ "_id" \notin DOMAIN c.doc.d
          \/ /\ c.mimetype = NoMime
             /\ \/ "_attachments" \notin DOMAIN c.doc.d
                \/ c.attachment_name \notin DOMAIN c.doc.d._attachments

\* C11: a call refused by local validation never reaches the transport: it
\* ends with no request built and no fetch issued, and (unless the private
\* IOLoop of a BlockingCouch was closed, the case of C8) its error is the
\* KeyError or ValueError of the validation.
C11_RejectedCallsDoNotFetch ==
    (pc \in {"fetching", "done"} /\ RejectedLocally(call)) =>
        /\ pc = "done"
        /\ fetches = 0
        /\ request = <<>>
        /\ outcome.kind = "raise"
        /\ ~(blocking /\ closed) =>
              outcome.exc.cls \in {"KeyError", "ValueError"}

\* delete_docs was called with one document that has no `_rev`
C11_Witness ==
    /\ pc = "done"
    /\ call.name = "delete_docs"
    /\ RejectedLocally(call)
    /\ outcome.kind = "raise"
    /\ outcome.exc.cls = "KeyError"

\* an operation of the given names has run up to its _http_* call
Built(names) == built # <<>> /\ rcall.name \in names

\* C12: save_doc PUTs to {db}/{escaped id} whenever the document has an
\* `_id`, with or without `_rev`, and POSTs to {db} exactly when it has no
\* `_id`; the body is the JSON encoding of the whole document.
C12_SaveDocPutOrPost ==
    Built({"save_doc"}) =>
        LET r == built[1]
            doc == rcall.doc
        IN /\ r.kind = "http"
           /\ r.body.enc = "json" /\ r.body.val = doc
           /\ r.url.query = <<>>
           /\ "_id" \in DOMAIN doc.d =>
                 /\ r.via = "put"
                 /\ r.url.path = <<db_name, url_escape(TextOf(doc.d._id))>>
           /\ "_id" \notin DOMAIN doc.d =>
                 /\ r.via = "post"
                 /\ r.url.path = <<db_name>>

\* a design document with an `_id` and no `_rev` is PUT to its escaped id
C12_Witness ==
    /\ Built({"save_doc"})
    /\ rcall.doc = DocDesign
    /\ built[1].via = "put"
    /\ built[1].url.path = <<<<"testdb">>, <<"_design", "%2F", "test">>>>

\* the positions of the keyword argument `keys`, and of the other ones
KeysAt(kwargs) == {i \in 1..Len(kwargs) : kwargs[i].k = "keys"}
OtherKwargs(kwargs) == SelectSeq(kwargs, LAMBDA kw : kw.k # "keys")

\* C13: when a view call passes `keys`, whatever its value, no query
\* parameter of the request is named keys, and the JSON body of the request
\* has `keys` with the value passed.
C13_KeysInBodyNotInQuery ==
    (Built(ViewOps) /\ KeysAt(rcall.kwargs) # {}) =>
        LET r == built[1]
        IN /\ r.kind = "http"
           /\ \A j \in 1..Len(r.url.query) : r.url.query[j].name # "keys"
           /\ r.body.enc = "json"
           /\ r.body.val.t = "dict"
           /\ "keys" \in DOMAIN r.body.val.d
           /\ \A i \in KeysAt(rcall.kwargs) :
                 r.body.val.d.keys = rcall.kwargs[i].v

\* view_all_docs(limit=10, keys=[]): an empty list of keys is in the body
C13_Witness ==
    /\ Built({"view_all_docs"})
    /\ rcall.kwargs = <<Kwarg("limit", Num(10)), Kwarg("keys", List(<<>>))>>
    /\ built[1].body = json_encode(Dict([keys |-> List(<<>>)]))
    /\ built[1].url.query = <<Param("limit", <<"1", "0">>)>>

\* C14 as stated: a view query is a POST if and only if `keys` was given.
C14_PostIffKeys ==
    Built(ViewOps) =>
        /\ built[1].kind = "http"
        /\ built[1].via = (IF KeysAt(rcall.kwargs) # {} THEN "post" ELSE "get")

\* the body a view call starts with: the view_doc of temp_view
GivenBody(c) == IF c.name = "temp_view" THEN c.view_doc.d ELSE <<>>

\* C14, amended: a view query is a POST if and only if `keys` was given or
\* the call is a temp_view with a view_doc that is not empty, and a GET
\* otherwise; the other keyword arguments play no part.
C14_PostIffKeysOrViewDoc ==
    Built(ViewOps) =>
        /\ built[1].kind = "http"
        /\ built[1].via =
              (IF KeysAt(rcall.kwargs) # {} \/ DOMAIN GivenBody(rcall) # {}
               THEN "post" ELSE "get")

\* temp_view(view_doc, limit=10) without keys is a POST of the view_doc
C14_Witness ==
    /\ Built({"temp_view"})
    /\ rcall.view_doc = ViewDoc
    /\ rcall.kwargs = <<Kwarg("limit", Num(10))>>
    /\ built[1].via = "post"
    /\ built[1].body = json_encode(ViewDoc)

\* the query parameters a view call must have if every value were encoded
\* as url_escape(json_encode(value))
AllJsonQuery(kwargs) ==
    LET others == OtherKwargs(kwargs)
    IN [i \in 1..Len(others) |->
            Param(others[i].k, url_escape(JsonText(others[i].v)))]

DocidAwareQuery(kwargs) ==
    LET others == OtherKwargs(kwargs)
    IN [i \in 1..Len(others) |->
            Param(others[i].k,
                  IF others[i].k \in {"startkey_docid", "endkey_docid"}
                  THEN url_escape(others[i].v.s)
                  ELSE url_escape(JsonText(others[i].v)))]

C16_HasDocTrueIff200 ==
    (Answered /\ call.name = "has_doc") =>
        /\ request[1].method = "head"
        /\ outcome = Returned(Bool(response[1].code = 200))

\* has_doc answered with 404 and an error body returns False
C16_Witness ==
    /\ Answered
    /\ call.name = "has_doc"
    /\ response[1].code = 404
    /\ response[1].body.raw = "json"
    /\ outcome = Returned(Bool(FALSE))

\* C17: delete_docs sends one POST to {db}/_bulk_docs, the url of
\* save_docs, with the caller's all_or_nothing flag and a `docs` list that
\* has, for each document given and in the order given, exactly the fields
\* `_id` and `_rev` of the document and `_deleted` true.
C17_DeleteDocsMarksDeleted ==
    (Built({"delete_docs"}) /\ ~RejectedLocally(rcall)) =>
        LET r == built[1]
            docs == rcall.docs
        IN /\ r.kind = "http"
           /\ r.via = "post"
           /\ r.url = Url(<<db_name, <<"_bulk_docs">>>>, <<>>)
           /\ r.url = save_docs([name |-> "save_docs"]).url
           /\ r.body.enc = "json"
           /\ DOMAIN r.body.val.d = {"all_or_nothing", "docs"}
           /\ r.body.val.d.all_or_nothing = rcall.all_or_nothing
           /\ Len(r.body.val.d.docs) = Len(docs)
           /\ \A i \in 1..Len(docs) :
                 LET sent == r.body.val.d.docs[i].d
                 IN /\ DOMAIN sent = {"_id", "_rev", "_deleted"}
                    /\ sent._id = docs[i].d._id
                    /\ sent._rev = docs[i].d._rev
                    /\ sent._deleted = TRUE

\* delete_docs([b, a], all_or_nothing=True) where a has attachments
C17_Witness ==
    /\ Built({"delete_docs"})
    /\ rcall.docs = <<DocB, DocWithAtt>>
    /\ rcall.all_or_nothing
    /\ built[1].body.val.d.docs =
          <<Dict([_id |-> "b", _rev |-> "2-y", _deleted |-> TRUE]),
            Dict([_id |-> "a", _rev |-> "1-x", _deleted |-> TRUE])>>

\* C18: no operation changes an object of its caller: after the operation
\* the documents, attachment dicts, keyword arguments and view_doc passed
\* in are what they were.
C18_CallerObjectsUnchanged ==
    built # <<>> => after[1] = rcall

\* C19: over any sequence of close() calls the transport client is closed
\* once, by the first call, and the private IOLoop of a BlockingCouch is
\* closed once with it; an AsyncCouch closes no IOLoop.
C19_ClosedExactlyOnce ==
    /\ closed <=> closeCalls > 0
    /\ clientCloses = (IF closeCalls > 0 THEN 1 ELSE 0)
    /\ loopCloses = (IF closeCalls > 0 /\ blocking THEN 1 ELSE 0)

\* close() was called twice on a BlockingCouch
C19_Witness ==
    /\ blocking
    /\ closeCalls = 2
    /\ closed
    /\ clientCloses = 1
    /\ loopCloses = 1

\* C20: a call that passes local validation on an open client issues one
\* fetch, no call issues more than one, and once the fetch has failed or
\* the server has answered with an error the call is over with that fetch.
C20_OneFetchPerCall ==
    /\ fetches <= 1
    /\ (pc \in {"fetching", "done"} /\ ~closed /\ ~RejectedLocally(call)) =>
          /\ fetches = 1
          /\ request # <<>>
    /\ pc = "fetching" => outcome = NoOutcome
    /\ (pc = "done" /\ fetches = 1) => outcome # NoOutcome

\* a save_doc answered with status 500 has raised after its one fetch
C20_Witness ==
    /\ pc = "done"
    /\ call.name = "save_doc"
    /\ response # <<>>
    /\ response[1].code = 500
    /\ outcome.kind = "raise"
    /\ fetches = 1

\* C21: in a session against the server, when save_doc of a new document d
\* returned an id and a rev and the next call is get_doc of that id, get_doc
\* returns d with `_id` and `_rev` set to the returned id and rev.
C21_SaveThenGet ==
    \A i \in 1..(Len(session) - 1) :
        LET s == session[i]
            g == session[i + 1]
        IN (/\ s.call.name = "save_doc"
            /\ "_rev" \notin DOMAIN s.call.doc.d
            /\ s.outcome.kind = "return"
            /\ g.call.name = "get_doc"
            /\ g.call.doc_id = s.outcome.val.d.id
            /\ g.outcome # NoOutcome)
           => g.outcome = Returned(Extend(s.call.doc, s.outcome.val.d.id,
                                          s.outcome.val.d.rev))

\* the call is a save_doc of a document that exists on the server, with a
\* `_rev` that is not its current revision
StaleSave(c) ==
    /\ c.name = "save_doc"
    /\ {"_id", "_rev"} \subseteq DOMAIN c.doc.d
    /\ Live(store[c.doc.d._id])
    /\ RevNumber(c.doc.d._rev) # store[c.doc.d._id].rev

\* C22: when the server answers a save_doc whose document exists and whose
\* `_rev` is stale or fabricated, the call raises Conflict or BadRequest and
\* the store is as it was before.
C22_StaleSaveFails ==
    [][(Pending(session) /\ StaleSave(session[Len(session)].call)
            /\ session' # session)
        => /\ store' = store
           /\ session'[Len(session)].outcome.kind = "raise"
           /\ session'[Len(session)].outcome.exc.cls
                    \in {"Conflict", "BadRequest"}]_vars

\* a session where a stale `_rev` gave Conflict and a fabricated one
\* BadRequest
C22_Witness ==
    /\ \E i \in 1..Len(session) :
            /\ session[i].call = [name |-> "save_doc", doc |-> DocStale]
            /\ session[i].outcome.kind = "raise"
            /\ session[i].outcome.exc.cls = "Conflict"
    /\ \E i \in 1..Len(session) :
            /\ session[i].call = [name |-> "save_doc", doc |-> DocFabricated]
            /\ session[i].outcome.kind = "raise"
            /\ session[i].outcome.exc.cls = "BadRequest"
    /\ store = StoreWithA

\* the ids of the rows of a listing
ListedIds(listing) ==
    {listing.d.rows[k].d.id : k \in 1..Len(listing.d.rows)}

\* C23: when save_docs(D) returned and the next call is delete_docs of the
\* documents D' that carry the returned ids and revs, delete_docs returns
\* one result per document of D', in the order of D', the documents are
\* gone from the server, and a view_all_docs that follows lists none of
\* their ids.
C23_SaveThenDeleteDocs ==
    \A i \in 1..(Len(session) - 1) :
        LET s == session[i]
            d == session[i + 1]
        IN (/\ s.call.name = "save_docs"
            /\ s.outcome.kind = "return"
            /\ d.call.name = "delete_docs"
            /\ d.call.docs = Refs(s.outcome.val.items)
            /\ d.outcome # NoOutcome)
           => /\ d.outcome.kind = "return"
              /\ Len(d.outcome.val.items) = Len(d.call.docs)
              /\ \A k \in 1..Len(d.call.docs) :
                    d.outcome.val.items[k].d.id = d.call.docs[k].d._id
              /\ Len(session) = i + 1 =>
                    \A k \in 1..Len(d.call.docs) :
                        ~Live(store[d.call.docs[k].d._id])
              /\ (/\ Len(session) > i + 1
                  /\ session[i + 2].call.name = "view_all_docs"
                  /\ session[i + 2].outcome # NoOutcome)
                 => /\ session[i + 2].outcome.kind = "return"
                    /\ \A k \in 1..Len(d.call.docs) :
                          d.call.docs[k].d._id
                              \notin ListedIds(session[i + 2].outcome.val)

\* two documents were saved, then deleted, and the listing that followed
\* is that of the database as it was before
C23_Witness ==
    /\ Len(session) = 3
    /\ session[1].call.name = "save_docs"
    /\ Len(session[1].call.docs) = 2
    /\ session[2].call.name = "delete_docs"
    /\ session[2].outcome.kind = "return"
    /\ Len(session[2].outcome.val.items) = 2
    /\ session[3].call.name = "view_all_docs"
    /\ session[3].outcome.kind = "return"
    /\ ListedIds(session[3].outcome.val) = {"a"}

\* C24: when save_attachment(doc, A) returned and the next call is
\* get_attachment(doc, A.name, A.mimetype), the PUT carried A.data as its
\* body with Content-Type A.mimetype, the GET carries Accept A.mimetype,
\* and get_attachment returns the bytes of A.data, not decoded.
C24_AttachmentRoundTrip ==
    \A i \in 1..(Len(session) - 1) :
        LET s == session[i]
            g == session[i + 1]
            A == s.call.attachment
        IN (/\ s.call.name = "save_attachment"
            /\ s.outcome.kind = "return"
            /\ g.call.name = "get_attachment"
            /\ g.call.doc.d._id = s.call.doc.d._id
            /\ g.call.attachment_name = A.name
            /\ g.call.mimetype = A.mimetype
            /\ g.outcome # NoOutcome)
           => /\ s.request[1].method = "put"
              /\ s.request[1].body = RawBody(A.data)
              /\ s.request[1].headers["Content-Type"] = A.mimetype
              /\ g.request[1].method = "get"
              /\ g.request[1].headers["Accept"] = A.mimetype
              /\ g.outcome = Returned(Raw(BytesBody(A.data)))

\* an attachment that is the text of a JSON object with an `error` key
\* came back as bytes
C24_Witness ==
    /\ Len(session) = 2
    /\ session[1].call.name = "save_attachment"
    /\ session[1].call.attachment = AttJson
    /\ session[1].outcome.kind = "return"
    /\ session[2].call.name = "get_attachment"
    /\ session[2].call.attachment_name = "my att"
    /\ session[2].outcome = Returned(Raw(BytesBody(JsonBytes)))

\* the use_gzip the caller asked for: the value given, False by default
GivenGzip ==
    IF "use_gzip" \in DOMAIN ctor_args THEN ctor_args.use_gzip ELSE FALSE

\* C25: every request of a client of src/couch.py has the use_gzip that
\* the caller gave to the constructor, and False when none was given.
C25_UseGzipAsGiven ==
    /\ \A i \in 1..Len(areq) : areq[i].req.use_gzip = GivenGzip
    /\ \A i \in 1..Len(breq) : breq[i].req.use_gzip = GivenGzip

\* C29: when a call on the AsyncCouch of src/couch.py is over, the callback
\* was called exactly once, and no request was made if the operation
\* reported an error of its arguments.
C29_CallbackOnce ==
    lpc = "done" =>
        /\ Len(cbs) = 1
        /\ Legacy_Async(lcall).cbs # <<>> => areq = <<>>

\* C30: when the same call with the same answer is over on both clients of
\* src/couch.py, either BlockingCouch raised an exception and the callback
\* got one exception of the same class, or BlockingCouch returned a value
\* and the callback got that value.
C30_ModesAgree ==
    lpc = "done" =>
        /\ bout.kind = "raise" =>
                /\ Len(cbs) = 1
                /\ "cls" \in DOMAIN cbs[1]
                /\ cbs[1].cls = bout.exc.cls
        /\ bout.kind = "return" => cbs = <<bout.val>>

\* the values a call itself gives header n: those of the operation, and
\* the 'application/json' its _http_* method fills in
OwnHeader(c, n) == {Facade(c).headers[n], "application/json"}

\* C26: no operation changes self.request_args, and the headers and the
\* request_timeout of every request come from the request_args given to
\* __init__ or from the request's own call, whatever calls were made
\* before it and whichever of them are still waiting for their answer.
C26_RequestArgsPrivate ==
    /\ client.request_args = configured.request_args
    /\ \A i \in 1..Len(requests) :
        LET r == requests[i]
        IN /\ \A n \in HeaderNames :
                r.req_args.headers[n] \in
                    {configured.request_args.headers[n]} \cup OwnHeader(r.call, n)
           /\ r.req_args.request_timeout \in
                    {configured.request_args.request_timeout, PostKwargs(r.call)}
           /\ r.call.name # "pull_db" =>
                r.req_args.request_timeout =
                    configured.request_args.request_timeout

\* a get_attachment with its mimetype as Accept, or a pull_db with its
\* timeout, is waiting for its answer while a later call of another
\* operation has built its request
C26_Witness ==
    /\ Len(requests) = 2
    /\ ~requests[1].answered
    /\ requests[1].call.name \in {"get_attachment", "pull_db"}
    /\ requests[1].req_args.headers["Accept"] = "text/plain"
         \/ requests[1].req_args.request_timeout = "120.0"
    /\ requests[2].call.name \in {"get_doc", "create_db"}
    /\ requests[2].req_args.headers["Accept"] = "application/json"
    /\ requests[2].req_args.request_timeout # "120.0"

\* the step is a call of use() that gives a database name and no couch_url
UseOnlyName == configured'.uses # configured.uses /\ ~configured'.used.url_given

\* the step is a create_db, delete_db, info_db or pull_db with a db_name
DbOpWithName ==
    /\ Len(requests') = Len(requests) + 1
    /\ requests'[Len(requests')].call.name \in DbOps
    /\ "db_name" \in DOMAIN requests'[Len(requests')].call

\* C27: use(db_name) with a database name alone leaves self.couch_url as
\* it was, and create_db, delete_db, info_db and pull_db with an explicit
\* db_name leave self.db_name and self.couch_url as they were.
C27_UseKeepsUrl ==
    [][/\ UseOnlyName => client'.couch_url = client.couch_url
       /\ DbOpWithName => /\ client'.db_name = client.db_name
                          /\ client'.couch_url = client.couch_url]_vars

\* the couch_url that the latest use(), or __init__, was given
GivenUrl == configured.used.couch_url

\* self.couch_url ends with '/': the url given with one '/' appended, or
\* the url given when it ends with '/'
SlashNormalized ==
    /\ endswith(client.couch_url, "/")
    /\ endswith(GivenUrl, "/") => client.couch_url = GivenUrl
    /\ ~endswith(GivenUrl, "/") => client.couch_url = GivenUrl \o <<"/">>
    /\ \A i \in 1..Len(requests) : endswith(requests[i].couch_url, "/")

\* the operation of the request uses no database name, or a name that is
\* not empty and does not start with '/'
ProperName(r) ==
    UsesName(r.call) => r.name_used # NoName /\ ~startswith(r.name_used, "/")

\* C28 as stated: self.couch_url ends with '/' after __init__ and after
\* every use(), with one '/' appended where the url given had none, and
\* the uri of every request does not start with '/'.
C28_TrailingSlash ==
    /\ SlashNormalized
    /\ \A i \in 1..Len(requests) : ~startswith(requests[i].uri, "/")

\* C28, amended: self.couch_url ends with '/' after __init__ and after
\* every use(), with one '/' appended where the url given had none, and
\* the uri of a request does not start with '/' when its operation uses no
\* database name or one that is not empty and does not start with '/'.
C28_TrailingSlashNamed ==
    /\ SlashNormalized
    /\ \A i \in 1..Len(requests) :
            ProperName(requests[i]) => ~startswith(requests[i].uri, "/")

\* after __init__, use() was given a url without '/' at its end, and a
\* get_doc on the database named then has built its request
C28_Witness ==
    /\ configured.uses = 1
    /\ configured.used.url_given
    /\ GivenUrl = UrlNoSlash
    /\ Len(requests) = 1
    /\ requests[1].call.name = "get_doc"
    /\ requests[1].name_used = db_name
    /\ requests[1].couch_url = UrlSlash
    /\ requests[1].uri = <<"testdb", "/", "a">>

====
